---- MODULE Spec2Model ----
(***************************************************************************)
(* A model of listenmail: the concurrent Dispatcher (pkg/dispatcher) and   *)
(* the polling mail sources (pkg/sources: IMAP, POP3, MailHog REST API).   *)
(*                                                                         *)
(* Spec     the Dispatcher, with main's handlers registered, under         *)
(*          concurrent Dispatch callers.                                   *)
(* SpecLive the same under fair scheduling.                                *)
(* SpecClose  the same with two callers and Close, under fair scheduling.  *)
(* SpecSrc  one polling source driving the Dispatcher, with wall-clock     *)
(*          time and the hourly sweep of its dedup map.                    *)
(* SpecLife one polling source from New over Start to Stop, and the        *)
(*          Close of the Dispatcher that follows.                          *)
(* SpecAny  one source of any of the four kinds driving the Dispatcher.    *)
(* SpecMark the dedup record of one polling source under markProcessed,    *)
(*          the clock and the sweep.                                       *)
(* SpecLock isProcessed and markProcessed against a sweep that goes entry   *)
(*          by entry under the source's lock.                              *)
(* SpecMain main: the source loops, the wait for the signal and the Stop    *)
(*          loop.                                                          *)
(* SpecRetr the line loop that reads the answer to a POP3 RETR.            *)
(* SpecMany more concurrent callers than queue, run and slots take in.     *)
(* SpecHung Handle calls that never return.                                *)
(* SpecMut  a job against AddHandlers and RemoveHandlers calls that go     *)
(*          handler by handler under the dispatcher's lock.                *)
(* SpecRegs two goroutines in AddHandlers and RemoveHandlers at once.      *)
(* SpecReg  AddHandlers and RemoveHandlers on a new Dispatcher.            *)
(* SpecSMTP one SMTP session whose Data calls drive the Dispatcher.        *)
(***************************************************************************)
EXTENDS Integers, Sequences, FiniteSets, TLC

\* ------------------------------------------------------------------ bounds
\* Capacity of the workers channel (10 in New); scaled down for checking.
W == 2
\* Capacity of the mailCh channel (100 in New); scaled down for checking.
Q == 1
\* Number of goroutines that call Dispatch concurrently in Spec.
NCallers == 3

CallerNames == <<"c1", "c2", "c3", "c4", "c5", "c6", "c7", "c8">>
DirectCallers == {CallerNames[i] : i \in 1..NCallers}
\* More callers than the queue, run and the worker slots take in together.
ManyCallers == {CallerNames[i] : i \in 1..(Q + W + 1)}
PollingSources == {"imap", "pop3", "mailhog"}
Callers == DirectCallers \cup ManyCallers \cup PollingSources \cup {"smtp"}

\* ---------------------------------------------------------------- handlers
\* Three handlers: A is a handlers.Handler built with a nil condition, B a
\* SaveAttachmentHandler and C a LogHandler.
Handlers == {"A", "B", "C"}

\* Match: SaveAttachmentHandler matches a mail with attachments, LogHandler
\* every mail, and a Handler with a nil condition every mail.
Match(h, mail) == IF h = "B" THEN mail.att ELSE TRUE

\* error values: nil, or the error a handler's Handle returned for a mail.
Nil == [handler |-> "nil", mail |-> <<>>]
HandleErr(h, mail) == [handler |-> h, mail |-> mail.id]
\* Handle: LogHandler always returns nil; the handle function of a Handler
\* and the file writes of SaveAttachmentHandler return nil or an error.
HandleResults(h, mail) == IF h = "C" THEN {Nil} ELSE {Nil, HandleErr(h, mail)}

NoMail == [id |-> <<>>, source |-> "", att |-> FALSE]
NoTask == [pc |-> "none", hs |-> <<>>, i |-> 0, err |-> Nil]
NoJob == "nojob"
\* The dispatcher was not closed when the caller's current call began.
Open == [kind |-> "open", n |-> 0]
\* What ParseMail returned: none yet.
NoMsg == [MessageID |-> <<>>, From |-> <<>>, To |-> <<>>, Date |-> <<>>,
          att |-> FALSE, parsed |-> FALSE]
\* An SMTP session outside Data.
NoData == [pc |-> "idle", msg |-> NoMsg, ret |-> Nil, dispatched |-> FALSE]
\* Neither AddHandlers nor RemoveHandlers has been called since New.
NoOp == [op |-> "none", args |-> <<>>, before |-> <<>>, removed |-> {}]

VARIABLES
    \* Dispatcher fields
    handlers,     \* d.handlers: the ordered handler list
    handlersMap,  \* d.handlersMap: the keys mapped to true
    workers,      \* number of tokens in the d.workers channel
    mailCh,       \* d.mailCh: queued jobs (a job is named by its caller)
    done,         \* d.done is closed
    \* the supervising goroutine d.run
    runPc,        \* "select" | "acquire" | "exit"
    runJob,       \* the job run holds while it waits for a worker slot
    \* the processing goroutine of each job
    task,         \* [pc, hs (the snapshot), i (loop index), err]
    releasing,    \* goroutines past job.err <- err, before <-d.workers
    jobErr,       \* job.err: the one-slot result channel of each job
    \* Dispatch callers
    call,         \* [pc, mail, ret] of each goroutine calling Dispatch
    \* history of the current job of each caller
    invoked,      \* handlers whose Handle was called, in order
    results,      \* what each of these Handle calls returned, in order
    chainRes,     \* <<r>> once dispatchToHandlers returned r, else <<>>
    phase,        \* where each caller's job stood when Close was called
    lastOp,       \* the last AddHandlers/RemoveHandlers call: [op, args, before]
                  \*   and the handlers removed so far
    \* the SMTP session
    smtp,         \* Session.Data: [pc, msg (what ParseMail returned), ret,
                  \*   dispatched (Dispatch was called)]
    dmu,          \* d.mu: free, or held by an AddHandlers/RemoveHandlers call
                  \*   in progress
    reg,          \* the goroutines that call AddHandlers/RemoveHandlers:
                  \*   [pc, op, args, k (position in args), before (the list
                  \*   at the lock), i (index found by the inner loop), ret]
    main,         \* func main: its position, src, activeSources and the
                  \*   Stop calls made
    retr          \* POP3 RETR: the lines the server sends and what was read

auxVars == <<dmu, reg, main, retr>>

dvars == <<handlers, handlersMap, workers, mailCh, done, runPc, runJob, task,
           releasing, jobErr, call, invoked, results, chainRes, phase, lastOp, smtp, auxVars>>

\* Polling sources (declared below): their variables, left unchanged by the
\* Dispatcher's own steps.
VARIABLES
    now,           \* wall-clock time, in sweep periods since the sources were created
    life,          \* each source's configuration and how far New/Start got
    smu,           \* s.mu of each source: free, or held by a sweep in progress
    pc,            \* monitor goroutine of each source: "off" | "idle" | "loop" |
                   \*   "dispatch" | "ret" | "exit"
    srcDone,       \* s.done is closed (Stop was called)
    sweeper,       \* the clean* goroutine of each source is alive
    sweepDue,      \* its ticker.C holds a tick
    tickRet,       \* what checkNewMessages returned: "nil" | "err"
    \* IMAPSource
    uidValidity, processedUIDs, lastUID,
    mbox,          \* the status Select returned in this tick
    atStart,         \* s.uidValidity and s.lastUID when this tick started
    criteria,      \* lower bound of the UID range searched (0: no range)
    messages,      \* the messages UidFetch delivers on the channel, in order
    fetchRes,      \* what UidFetch returns on the done channel: "nil" | "err"
    imapI,         \* position of the range loop in messages
    \* POP3Source
    processedMsgs,
    uidlList,      \* the (Number, ID) pairs read from the UIDL answer
    pop3I,         \* position of the loop in uidlList
    \* MailHogSource
    processedIDs, lastID,
    items,         \* apiResp.Items
    mhI,           \* loop index i, counting down to 0 (here: to 1)
    \* history
    trace,         \* the items the current tick examined: [id, marked, verdict]
    calls,         \* Dispatch calls per item since it was last evicted or reset
    firstOK,       \* the first of these calls returned nil
    ran,           \* handlers whose Handle ran in these calls, once returned
    evicted        \* items a sweep removed and that were not marked since

svars == <<now, life, smu, pc, srcDone, sweeper, sweepDue, tickRet,
           uidValidity, processedUIDs, lastUID, mbox, atStart, criteria, messages,
           fetchRes, imapI,
           processedMsgs, uidlList, pop3I,
           processedIDs, lastID, items, mhI,
           trace, calls, firstOK, ran, evicted>>

vars == <<dvars, svars>>

\* ------------------------------------------------------------- Dispatcher
\* d.mu is free.
RWUnlocked == [holder |-> "free"]
\* The goroutines that change the handler list while jobs are dispatched.
Registrars == {"r1", "r2"}
\* A registrar outside AddHandlers and RemoveHandlers.
NoCall == [pc |-> "idle", op |-> "none", args |-> <<>>, k |-> 0, before |-> <<>>,
           i |-> 0, ret |-> Nil]
\* The nil value of the types.Source interface.
NilSource == "nil"
\* main has not read its configuration: var activeSources, var src.
NotStarted == [pc |-> "off", enabled |-> {}, i |-> 1, src |-> NilSource,
               activeSources |-> <<>>, started |-> {}, k |-> 1, stopped |-> <<>>]
\* No RETR in progress: nothing sent, nothing to read, messageData empty.
NoRetr == [pc |-> "off", sent |-> <<>>, wire |-> <<>>, messageData |-> <<>>]

\* New: empty handler list and map, empty channels, run started.
InitDispatcher ==
    /\ handlers = <<>>
    /\ handlersMap = {}
    /\ workers = 0
    /\ mailCh = <<>>
    /\ done = FALSE
    /\ runPc = "select"
    /\ runJob = NoJob
    /\ task = [c \in Callers |-> NoTask]
    /\ releasing = 0
    /\ jobErr = [c \in Callers |-> <<>>]
    /\ call = [c \in Callers |-> [pc |-> "idle", mail |-> NoMail, ret |-> Nil]]
    /\ invoked = [c \in Callers |-> <<>>]
    /\ results = [c \in Callers |-> <<>>]
    /\ chainRes = [c \in Callers |-> <<>>]
    /\ phase = [c \in Callers |-> Open]
    /\ lastOp = NoOp
    /\ smtp = NoData
    /\ dmu = RWUnlocked
    /\ reg = [g \in Registrars |-> NoCall]
    /\ main = NotStarted
    /\ retr = NoRetr

\* A loop that appends every argument, registered or not.
AppendAll(list, map, hs) == <<list \o hs, map \cup {hs[k] : k \in 1..Len(hs)}>>

RECURSIVE AppendNew(_, _, _)
\* The loop of AddHandlers: append each handler not yet in the map.
AppendNew(list, map, hs) ==
    IF hs = <<>> THEN <<list, map>>
    ELSE IF Head(hs) \in map
         THEN AppendNew(list, map, Tail(hs))
         ELSE AppendNew(Append(list, Head(hs)), map \cup {Head(hs)}, Tail(hs))

\* The inner loop of RemoveHandlers: drop the first occurrence of h.
RemoveFirst(list, h) ==
    IF \E i \in 1..Len(list) : list[i] = h
    THEN LET i == CHOOSE k \in 1..Len(list) :
                      list[k] = h /\ \A j \in 1..(k - 1) : list[j] # h
         IN  SubSeq(list, 1, i - 1) \o SubSeq(list, i + 1, Len(list))
    ELSE list

\* A loop that takes the handlers out of the list and leaves the map alone.
RemoveKeepMap(list, map, hs) ==
    <<SelectSeq(list, LAMBDA h : \A k \in 1..Len(hs) : hs[k] # h), map>>

RECURSIVE RemoveAll(_, _, _)
\* The loop of RemoveHandlers: the map entry is deleted only when the handler
\* was found in the list.
RemoveAll(list, map, hs) ==
    IF hs = <<>> THEN <<list, map>>
    ELSE LET h == Head(hs)
             found == \E i \in 1..Len(list) : list[i] = h
         IN  RemoveAll(RemoveFirst(list, h),
                       IF found THEN map \ {h} ELSE map,
                       Tail(hs))

\* Argument lists of AddHandlers/RemoveHandlers: up to three handlers,
\* repetitions included.
HandlerArgs ==
    {<<a>> : a \in Handlers}
    \cup {<<a, b>> : a \in Handlers, b \in Handlers}
    \cup {<<"A", "B", "C">>, <<"C", "B", "A">>}

AddHandlers(hs) ==
    /\ LET r == AppendNew(handlers, handlersMap, hs)
       IN  /\ handlers' = r[1]
           /\ handlersMap' = r[2]
    /\ lastOp' = [op |-> "add", args |-> hs, before |-> handlers,
                  removed |-> lastOp.removed]
    /\ UNCHANGED <<workers, mailCh, done, runPc, runJob, task, releasing,
                   jobErr, call, invoked, results,
                   chainRes, phase, smtp, auxVars>>
    /\ UNCHANGED svars

RemoveHandlers(hs) ==
    /\ LET r == RemoveAll(handlers, handlersMap, hs)
       IN  /\ handlers' = r[1]
           /\ handlersMap' = r[2]
    /\ lastOp' = [op |-> "remove", args |-> hs, before |-> handlers,
                  removed |-> lastOp.removed
                              \cup {h \in handlersMap : \E k \in 1..Len(hs) : hs[k] = h}]
    /\ UNCHANGED <<workers, mailCh, done, runPc, runJob, task, releasing,
                   jobErr, call, invoked, results,
                   chainRes, phase, smtp, auxVars>>
    /\ UNCHANGED svars

\* One result channel shared by all jobs.
SharedErrChan(c) == "c1"

\* job.err: every Dispatch call makes a channel of its own for its job.
ErrChan(c) == c

\* Dispatch, entry: the job is created with an empty one-slot err channel and
\* the caller reaches the select.
DispatchCall(c, mail) ==
    /\ call[c].pc = "idle"
    /\ call' = [call EXCEPT ![c] = [pc |-> "select", mail |-> mail, ret |-> Nil]]
    /\ jobErr' = [jobErr EXCEPT ![ErrChan(c)] = <<>>]
    /\ invoked' = [invoked EXCEPT ![c] = <<>>]
    /\ results' = [results EXCEPT ![c] = <<>>]
    /\ chainRes' = [chainRes EXCEPT ![c] = <<>>]
    /\ phase' = [phase EXCEPT ![c] = IF done THEN [kind |-> "late", n |-> 0]
                                              ELSE Open]

\* A Dispatch that returns as soon as its job is in the queue.
ReturnAfterSend == "ret"

\* Dispatch, case d.mailCh <- job: the caller goes on to return <-job.err.
AfterSend == "wait"

\* A queue that takes any number of jobs.
QueueUnbounded == TRUE

\* The send d.mailCh <- job can proceed: the channel is not full.
QueueHasRoom == Len(mailCh) < Q

\* Dispatch, select case d.mailCh <- job.
DispatchSend(c) ==
    /\ call[c].pc = "select"
    /\ QueueHasRoom
    /\ mailCh' = Append(mailCh, c)
    /\ call' = [call EXCEPT ![c].pc = AfterSend]
    /\ UNCHANGED <<handlers, handlersMap, workers, done, runPc, runJob, task,
                   releasing, jobErr, invoked, results,
                   chainRes, phase, lastOp, smtp, auxVars>>
    /\ UNCHANGED svars

\* Dispatch, select case <-d.done: return nil.
DispatchDone(c) ==
    /\ call[c].pc = "select"
    /\ done
    /\ call' = [call EXCEPT ![c].pc = "ret", ![c].ret = Nil]
    /\ UNCHANGED <<handlers, handlersMap, workers, mailCh, done, runPc, runJob,
                   task, releasing, jobErr, invoked, results,
                   chainRes, phase, lastOp, smtp, auxVars>>
    /\ UNCHANGED svars

\* Dispatch, return <-job.err.
DispatchRecv(c) ==
    /\ call[c].pc = "wait"
    /\ jobErr[ErrChan(c)] # <<>>
    /\ call' = [call EXCEPT ![c].pc = "ret", ![c].ret = Head(jobErr[ErrChan(c)])]
    /\ jobErr' = [jobErr EXCEPT ![ErrChan(c)] = Tail(@)]
    /\ UNCHANGED <<handlers, handlersMap, workers, mailCh, done, runPc, runJob,
                   task, releasing, invoked, results,
                   chainRes, phase, lastOp, smtp, auxVars>>
    /\ UNCHANGED svars

\* run, select case <-d.done: return.
RunDone ==
    /\ runPc = "select"
    /\ done
    /\ runPc' = "exit"
    /\ UNCHANGED <<handlers, handlersMap, workers, mailCh, done, runJob, task,
                   releasing, jobErr, call, invoked, results,
                   chainRes, phase, lastOp, smtp, auxVars>>
    /\ UNCHANGED svars

\* A receive that leaves the job in the queue.
RecvKeeps(q) == q

\* The queue after job := <-d.mailCh: the job received is no longer in it.
AfterRecv(q) == Tail(q)

\* run, select case job := <-d.mailCh.
RunRecv ==
    /\ runPc = "select"
    /\ mailCh # <<>>
    /\ runJob' = Head(mailCh)
    /\ mailCh' = AfterRecv(mailCh)
    /\ runPc' = "acquire"
    /\ UNCHANGED <<handlers, handlersMap, workers, done, task, releasing,
                   jobErr, call, invoked, results,
                   chainRes, phase, lastOp, smtp, auxVars>>
    /\ UNCHANGED svars

\* A run loop that starts a goroutine per job without waiting for a slot.
NoSlotLimit == TRUE

\* A pool with a single slot.
SingleSlot == workers < 1

\* The send d.workers <- struct{}{} can proceed: the channel is not full.
SlotFree == workers < W

\* run: d.workers <- struct{}{} and go func(job).
RunAcquire ==
    /\ runPc = "acquire"
    /\ SlotFree
    /\ workers' = workers + 1
    /\ task' = [task EXCEPT ![runJob] = [NoTask EXCEPT !.pc = "start"]]
    /\ runJob' = NoJob
    /\ runPc' = "select"
    /\ UNCHANGED <<handlers, handlersMap, mailCh, done, releasing, jobErr,
                   call, invoked, results,
                   chainRes, phase, lastOp, smtp, auxVars>>
    /\ UNCHANGED svars

\* dispatchToHandlers: the copy of d.handlers made under the read lock.
Snapshot == handlers

\* A copy made without the read lock.
NoRLock == TRUE

\* d.mu.RLock() returns: no AddHandlers or RemoveHandlers call holds d.mu.
CanRLock == dmu.holder = "free"

TaskSnapshot(c) ==
    /\ task[c].pc = "start"
    /\ CanRLock
    /\ task' = [task EXCEPT ![c] = [pc |-> "chain", hs |-> Snapshot, i |-> 1,
                                    err |-> Nil]]
    /\ UNCHANGED <<handlers, handlersMap, workers, mailCh, done, runPc, runJob,
                   releasing, jobErr, call, invoked, results,
                   chainRes, phase, lastOp, smtp, auxVars>>
    /\ UNCHANGED svars

\* A loop that returns nil at the first handler that does not match.
StopOnNoMatch(t, matched) ==
    IF matched THEN [t EXCEPT !.pc = "handle"]
               ELSE [t EXCEPT !.pc = "send", !.err = Nil]

\* if handler.Match(mail): Handle is called when Match returned true, and
\* the loop goes to the next handler when it returned false.
AfterMatch(t, matched) ==
    IF matched THEN [t EXCEPT !.pc = "handle"]
               ELSE [t EXCEPT !.i = t.i + 1]

\* dispatchToHandlers, loop head: the range is exhausted (return nil), the
\* handler does not match (next), or its Handle is called.
TaskNext(c) ==
    /\ task[c].pc = "chain"
    /\ LET t == task[c]
       IN  IF t.i > Len(t.hs)
           THEN /\ task' = [task EXCEPT ![c].pc = "send", ![c].err = Nil]
                /\ chainRes' = [chainRes EXCEPT ![c] = <<Nil>>]
                /\ UNCHANGED invoked
           ELSE LET u == AfterMatch(t, Match(t.hs[t.i], call[c].mail))
                IN  /\ task' = [task EXCEPT ![c] = u]
                    /\ invoked' = [invoked EXCEPT ![c] =
                                      IF u.pc = "handle" THEN Append(@, t.hs[t.i])
                                                         ELSE @]
                    /\ chainRes' = [chainRes EXCEPT ![c] =
                                       IF u.pc = "send" THEN <<u.err>> ELSE @]
    /\ UNCHANGED <<handlers, handlersMap, workers, mailCh, done, runPc, runJob,
                   releasing, jobErr, call, results, phase, lastOp, smtp, auxVars>>
    /\ UNCHANGED svars

\* A loop that drops the value Handle returned and goes on.
IgnoreHandleErr(t, r) == [t EXCEPT !.pc = "chain", !.i = t.i + 1]

\* A loop that gives up with nil once d.done is closed.
StopWhenClosed(t, r) ==
    IF r # Nil \/ done THEN [t EXCEPT !.pc = "send", !.err = IF done THEN Nil ELSE r]
                       ELSE [t EXCEPT !.pc = "chain", !.i = t.i + 1]

\* What the loop does with the value r that Handle returned: a non-nil error
\* is returned at once, nil moves on to the next handler.
AfterHandle(t, r) ==
    IF r # Nil THEN [t EXCEPT !.pc = "send", !.err = r]
               ELSE [t EXCEPT !.pc = "chain", !.i = t.i + 1]

\* handler.Handle(mail) returns.
TaskHandleReturn(c) ==
    /\ task[c].pc = "handle"
    /\ \E r \in HandleResults(task[c].hs[task[c].i], call[c].mail) :
          /\ task' = [task EXCEPT ![c] = AfterHandle(task[c], r)]
          /\ results' = [results EXCEPT ![c] = Append(@, r)]
          /\ chainRes' = [chainRes EXCEPT ![c] = IF r # Nil THEN <<r>> ELSE @]
    /\ UNCHANGED <<handlers, handlersMap, workers, mailCh, done, runPc, runJob,
                   releasing, jobErr, call, invoked, phase, lastOp, smtp, auxVars>>
    /\ UNCHANGED svars

\* handler.Handle(mail) never returns: the goroutine stays in the call, with
\* its slot.
TaskHang(c) ==
    /\ task[c].pc = "handle"
    /\ task' = [task EXCEPT ![c].pc = "hung"]
    /\ UNCHANGED <<handlers, handlersMap, workers, mailCh, done, runPc, runJob,
                   releasing, jobErr, call, invoked, results, chainRes, phase,
                   lastOp, smtp, auxVars>>
    /\ UNCHANGED svars

\* job.err <- err: the channel has one slot and one sender, so it never blocks.
TaskSend(c) ==
    /\ task[c].pc = "send"
    /\ jobErr' = [jobErr EXCEPT ![ErrChan(c)] = Append(@, task[c].err)]
    /\ task' = [task EXCEPT ![c] = NoTask]
    /\ releasing' = releasing + 1
    /\ UNCHANGED <<handlers, handlersMap, workers, mailCh, done, runPc, runJob,
                   call, invoked, results,
                   chainRes, phase, lastOp, smtp, auxVars>>
    /\ UNCHANGED svars

\* A goroutine that ends without its deferred receive.
SlotLeaked(n) == n

\* The tokens in d.workers after the deferred <-d.workers.
SlotReleased(n) == n - 1

\* The deferred <-d.workers.
TaskRelease ==
    /\ releasing > 0
    /\ workers' = SlotReleased(workers)
    /\ releasing' = releasing - 1
    /\ UNCHANGED <<handlers, handlersMap, mailCh, done, runPc, runJob, task,
                   jobErr, call, invoked, results,
                   chainRes, phase, lastOp, smtp, auxVars>>
    /\ UNCHANGED svars

\* Where the job of caller c stands at the moment of Close: its goroutine was
\* started ("inflight", with n handlers invoked so far), run holds it and
\* waits for a slot ("held"), the caller is at the select or the job is in
\* mailCh ("pending"), or there is no unfinished job ("past").
AtClose(c) ==
    [kind |-> IF task[c].pc # "none" THEN "inflight"
              ELSE IF runJob = c THEN "held"
              ELSE IF call[c].pc = "select" \/ \E k \in 1..Len(mailCh) : mailCh[k] = c
                   THEN "pending"
                   ELSE "past",
     n |-> Len(invoked[c])]

\* ------------------------------------------------- registry, step by step
\* Argument lists of the calls made while jobs run: one handler, or two,
\* the same one twice included.
RegArgs == {<<a>> : a \in Handlers} \cup {<<"A", "A">>, <<"B", "C">>, <<"C", "A">>}

\* Calls that do not wait for d.mu.
NoWLock == TRUE

\* d.mu.Lock() returns: nobody holds d.mu (a reader holds it only within
\* its one step).
CanWLock == dmu.holder = "free"

\* What the steps of a registrar leave alone.
notReg == <<workers, mailCh, done, runPc, runJob, task, releasing, jobErr, call,
            invoked, results, chainRes, phase, lastOp, smtp, main, retr>>

\* AddHandlers(hs...) or RemoveHandlers(hs...), entry: d.mu.Lock().
RegLock(g, op, hs) ==
    /\ reg[g].pc \in {"idle", "ret"}
    /\ CanWLock
    /\ dmu' = [holder |-> g]
    /\ reg' = [reg EXCEPT ![g] = [pc |-> "loop", op |-> op, args |-> hs, k |-> 1,
                                  before |-> handlers, i |-> 0, ret |-> Nil]]
    /\ UNCHANGED <<handlers, handlersMap, notReg, svars>>

\* The loop over the arguments, up to the write.  AddHandlers: the test
\* !d.handlersMap[h].  RemoveHandlers: the inner loop looks for the first
\* index i with d.handlers[i] == h.
RegCheck(g) ==
    /\ reg[g].pc = "loop"
    /\ reg[g].k <= Len(reg[g].args)
    /\ LET h == reg[g].args[reg[g].k]
           at == {i \in 1..Len(handlers) : handlers[i] = h}
       IN  IF reg[g].op = "add"
           THEN reg' = [reg EXCEPT ![g] = IF h \in handlersMap
                                          THEN [@ EXCEPT !.k = @ + 1]
                                          ELSE [@ EXCEPT !.pc = "append"]]
           ELSE reg' = [reg EXCEPT ![g] =
                          IF at = {}
                          THEN [@ EXCEPT !.k = @ + 1]
                          ELSE [@ EXCEPT !.pc = "cut",
                                         !.i = CHOOSE i \in at : \A j \in at : i <= j]]
    /\ UNCHANGED <<handlers, handlersMap, dmu, notReg, svars>>

\* AddHandlers: d.handlers = append(d.handlers, h); d.handlersMap[h] = true.
\* RemoveHandlers: d.handlers = append(d.handlers[:i], d.handlers[i+1:]...);
\* delete(d.handlersMap, h); break.  An index beyond the list panics.
RegWrite(g) ==
    /\ reg[g].pc \in {"append", "cut"}
    /\ LET h == reg[g].args[reg[g].k]
           i == reg[g].i
       IN  IF reg[g].pc = "append"
           THEN /\ handlers' = Append(handlers, h)
                /\ handlersMap' = handlersMap \cup {h}
                /\ reg' = [reg EXCEPT ![g].pc = "loop", ![g].k = @ + 1]
           ELSE IF i > Len(handlers)
           THEN /\ reg' = [reg EXCEPT ![g].pc = "panic"]
                /\ UNCHANGED <<handlers, handlersMap>>
           ELSE /\ handlers' = SubSeq(handlers, 1, i - 1)
                                   \o SubSeq(handlers, i + 1, Len(handlers))
                /\ handlersMap' = handlersMap \ {h}
                /\ reg' = [reg EXCEPT ![g].pc = "loop", ![g].k = @ + 1, ![g].i = 0]
    /\ UNCHANGED <<dmu, notReg, svars>>

\* The loop is over: the deferred d.mu.Unlock(), return nil.
RegUnlock(g) ==
    /\ reg[g].pc = "loop"
    /\ reg[g].k > Len(reg[g].args)
    /\ dmu' = RWUnlocked
    /\ reg' = [reg EXCEPT ![g] = [NoCall EXCEPT !.pc = "ret", !.ret = Nil]]
    /\ UNCHANGED <<handlers, handlersMap, notReg, svars>>

\* Close: close(d.done).  A second close would panic; it is called once.
Close ==
    /\ ~done
    /\ done' = TRUE
    /\ phase' = [c \in Callers |-> AtClose(c)]
    /\ UNCHANGED <<handlers, handlersMap, workers, mailCh, runPc, runJob, task,
                   releasing, jobErr, call, invoked, results, chainRes, lastOp, smtp, auxVars>>
    /\ UNCHANGED svars

\* The mail each direct caller dispatches: those of c1 and c3 carry attachments.
CallerMail(c) == [id |-> <<c>>, source |-> "direct", att |-> c \in {"c1", "c3"}]

\* A goroutine calls Dispatch(mail).
Dispatch(c) ==
    /\ DispatchCall(c, CallerMail(c))
    /\ UNCHANGED <<handlers, handlersMap, workers, mailCh, done, runPc, runJob,
                   task, releasing, lastOp, smtp, auxVars>>
    /\ UNCHANGED svars

\* The caller takes Dispatch's return value and is free to call again.
Return(c) ==
    /\ call[c].pc = "ret"
    /\ call' = [call EXCEPT ![c] = [pc |-> "idle", mail |-> NoMail, ret |-> Nil]]
    /\ invoked' = [invoked EXCEPT ![c] = <<>>]
    /\ results' = [results EXCEPT ![c] = <<>>]
    /\ chainRes' = [chainRes EXCEPT ![c] = <<>>]
    /\ phase' = [phase EXCEPT ![c] = IF done THEN [kind |-> "past", n |-> 0]
                                              ELSE Open]
    /\ UNCHANGED <<handlers, handlersMap, workers, mailCh, done, runPc, runJob,
                   task, releasing, jobErr, lastOp, smtp, auxVars>>
    /\ UNCHANGED svars

\* ---------------------------------------------------------- polling sources
\* Number of distinct items (UIDs, UIDL ids, MailHog ids) a server holds.
NItems == 2
\* Retention of a dedup entry, in sweep periods (24 hours at one sweep per
\* hour in the clean* goroutines); scaled down for checking.
Retention == 2
\* The sweep ticker's period, the unit of the clock.
SweepPeriod == 1
\* Saturation of the history counters.
MaxCount == 2
\* The clock stops here: late enough for an entry marked in the first period
\* to be swept and seen again.
MaxTime == Retention + SweepPeriod + 1

Items == 1..NItems
\* UIDVALIDITY values the IMAP server may report.
Validities == {1, 2}

NoMbox == [UidValidity |-> 0, uids |-> {}]
NoneKnown == [uidValidity |-> 0, lastUID |-> 0]

\* The content of the server's messages: the odd ones carry an attachment.
HasAttachments(x) == x % 2 = 1

imapVars == <<uidValidity, processedUIDs, lastUID, mbox, atStart, criteria,
              messages, fetchRes, imapI>>
pop3Vars == <<processedMsgs, uidlList, pop3I>>
mhVars == <<processedIDs, lastID, items, mhI>>
histVars == <<trace, calls, firstOK, ran, evicted>>
\* What a Dispatch call itself leaves alone.
dfix == <<handlers, handlersMap, workers, mailCh, done, runPc, runJob, task,
          releasing, lastOp, smtp, auxVars>>

Max(S) == CHOOSE x \in S : \A y \in S : y <= x
Bump(n) == IF n < MaxCount THEN n + 1 ELSE MaxCount
\* The sequences over S without repetition.
InjSeqs(S) ==
    {f \in UNION {[1..n -> S] : n \in 0..Cardinality(S)} :
        \A i, j \in 1..Len(f) : i # j => f[i] # f[j]}

\* A membership test that never finds the key.
NeverProcessed(map, id) == FALSE

\* isProcessed: the key is in the map.
IsProcessed(map, id) == id \in DOMAIN map

\* A mark that is lost.
NoMark(map, id, t) == map

\* A mark that leaves an entry that is already there as it is.
MarkOnce(map, id, t) ==
    IF id \in DOMAIN map THEN map
    ELSE [x \in DOMAIN map \cup {id} |-> IF x = id THEN t ELSE map[x]]

\* markProcessed: map[id] = time.Now().
MarkProcessed(map, id, t) ==
    [x \in DOMAIN map \cup {id} |-> IF x = id THEN t ELSE map[x]]

\* A sweep that keeps an entry one period longer.
ExpiredLate(t, n) == n - t > Retention + SweepPeriod

\* A sweep that deletes an entry whose age has just reached the retention.
ExpiredAtLimit(t, n) == n - t >= Retention

\* The sweep's test on an entry marked at t: now.Sub(t) > 24*time.Hour.
Expired(t, n) == n - t > Retention

\* The sweep loop of the clean* goroutines: delete every expired entry.
Clean(map, n) ==
    [x \in {y \in DOMAIN map : ~Expired(map[y], n)} |-> map[x]]

EmptyMap == [x \in {} |-> 0]

\* The dedup map of a source.
Processed(s) ==
    CASE s = "imap" -> processedUIDs
      [] s = "pop3" -> processedMsgs
      [] s = "mailhog" -> processedIDs

\* The configuration fields Start requires to be non-empty.
Required(s) ==
    IF s = "mailhog" THEN {"apiurl"} ELSE {"server", "username", "password"}

\* A configuration is told by which of the required fields it fills in.
Configs(s) == SUBSET Required(s)

\* A source main does not create; one New*Source returned for configuration
\* cfg; one whose Start returned nil (IMAP and POP3 have connected by then).
NotCreated == [state |-> "none", cfg |-> {}, dialed |-> FALSE]
Created(cfg) == [state |-> "new", cfg |-> cfg, dialed |-> FALSE]
Started(s) == [state |-> "running", cfg |-> Required(s), dialed |-> s # "mailhog"]

\* s.mu is free.  While a sweep holds it: the time the sweep read, the keys
\* its range loop has yet to visit and those it has deleted.
Unlocked == [holder |-> "free", at |-> 0, todo |-> {}, gone |-> {}]

\* New*Source for the sources main creates: empty dedup map, zero watermark
\* and validity, the sweep goroutine running; the monitor goroutine runs
\* once Start has succeeded.
InitSourcesAs(lf) ==
    /\ now = 0
    /\ life = lf
    /\ smu = [s \in PollingSources |-> Unlocked]
    /\ pc = [s \in PollingSources |->
               IF lf[s].state = "running" THEN "idle" ELSE "off"]
    /\ srcDone = [s \in PollingSources |-> FALSE]
    /\ sweeper = [s \in PollingSources |-> lf[s].state # "none"]
    /\ sweepDue = [s \in PollingSources |-> FALSE]
    /\ tickRet = "nil"
    /\ uidValidity = 0
    /\ processedUIDs = EmptyMap
    /\ lastUID = 0
    /\ mbox = NoMbox
    /\ atStart = NoneKnown
    /\ criteria = 0
    /\ messages = <<>>
    /\ fetchRes = "nil"
    /\ imapI = 0
    /\ processedMsgs = EmptyMap
    /\ uidlList = <<>>
    /\ pop3I = 0
    /\ processedIDs = EmptyMap
    /\ lastID = 0
    /\ items = <<>>
    /\ mhI = 0
    /\ trace = <<>>
    /\ calls = [x \in Items |-> 0]
    /\ firstOK = [x \in Items |-> FALSE]
    /\ ran = [x \in Items |-> {}]
    /\ evicted = {}

\* The polling sources in active are created and their Start succeeded.
InitSources(active) ==
    InitSourcesAs([s \in PollingSources |->
                     IF s \in active THEN Started(s) ELSE NotCreated])

\* A Start that goes on to connect whatever the configuration holds.
NoFieldCheck(s, cfg) == FALSE

\* Start: if s.config.Server == "" ... (Username, Password; APIURL).
MissingField(s, cfg) == Required(s) \ cfg # {}

\* Start.  With a required field empty it returns an error at once.  IMAP and
\* POP3 then connect and log in, which may fail; MailHog connects only in
\* its ticks.  On success the monitor goroutine is started.
Start(s) ==
    /\ life[s].state = "new"
    /\ IF MissingField(s, life[s].cfg)
       THEN /\ life' = [life EXCEPT ![s].state = "failed"]
            /\ UNCHANGED pc
       ELSE IF s = "mailhog"
            THEN /\ life' = [life EXCEPT ![s].state = "running"]
                 /\ pc' = [pc EXCEPT ![s] = "idle"]
            ELSE \/ /\ life' = [life EXCEPT ![s].state = "failed",
                                            ![s].dialed = TRUE]
                    /\ UNCHANGED pc
                 \/ /\ life' = [life EXCEPT ![s].state = "running",
                                            ![s].dialed = TRUE]
                    /\ pc' = [pc EXCEPT ![s] = "idle"]
    /\ UNCHANGED <<now, smu, srcDone, sweeper, sweepDue, tickRet, imapVars,
                   pop3Vars, mhVars, histVars, dvars>>

\* History of the items in X starts afresh (they were evicted, or the
\* validity generation changed).
ForgetCalls(X) == [x \in Items |-> IF x \in X THEN 0 ELSE calls[x]]
ForgetFirst(X) == [x \in Items |-> IF x \in X THEN FALSE ELSE firstOK[x]]
ForgetRan(X) == [x \in Items |-> IF x \in X THEN {} ELSE ran[x]]

\* Where a source spends wall-clock time: waiting for its ticker, on the
\* network between two items, and inside a handler.  The other steps are
\* computation and take none.
Waiting(s) ==
    \/ pc[s] \in {"off", "idle", "loop", "exit"}
    \/ pc[s] = "dispatch" /\ task[s].pc = "handle"

\* One period of wall-clock time passes; the sweep tickers fire.  A live sweep
\* goroutine takes its tick before the next one is due.
Advance ==
    /\ now < MaxTime
    /\ \A s \in PollingSources : Waiting(s)
    /\ \A s \in PollingSources : ~(sweepDue[s] /\ sweeper[s] /\ ~srcDone[s])
    /\ now' = now + 1
    /\ sweepDue' = [s \in PollingSources |->
                      sweeper[s] /\ (sweepDue[s] \/ (now + 1) % SweepPeriod = 0)]
    /\ UNCHANGED <<life, smu, pc, srcDone, sweeper, tickRet, imapVars,
                   pop3Vars, mhVars, histVars, dvars>>

\* clean*, case <-ticker.C: under the source's lock, delete the expired
\* entries.  The whole sweep as one step: what SweepBegin, SweepVisit and
\* SweepEnd do while every other user of the map waits for the lock.
Sweep(s) ==
    /\ sweeper[s]
    /\ sweepDue[s]
    /\ smu[s].holder = "free"
    /\ sweepDue' = [sweepDue EXCEPT ![s] = FALSE]
    /\ LET gone == DOMAIN Processed(s) \ DOMAIN Clean(Processed(s), now)
       IN  /\ processedUIDs' = IF s = "imap" THEN Clean(processedUIDs, now)
                                             ELSE processedUIDs
           /\ processedMsgs' = IF s = "pop3" THEN Clean(processedMsgs, now)
                                             ELSE processedMsgs
           /\ processedIDs' = IF s = "mailhog" THEN Clean(processedIDs, now)
                                               ELSE processedIDs
           /\ evicted' = evicted \cup gone
           /\ calls' = ForgetCalls(gone)
           /\ firstOK' = ForgetFirst(gone)
           /\ ran' = ForgetRan(gone)
    /\ UNCHANGED <<now, life, smu, pc, srcDone, sweeper, tickRet, uidValidity, lastUID,
                   mbox, atStart, criteria, messages, fetchRes, imapI, uidlList,
                   pop3I, lastID, items, mhI, trace, dvars>>

\* clean*, case <-s.done: return.
SweeperExit(s) ==
    /\ sweeper[s]
    /\ srcDone[s]
    /\ sweeper' = [sweeper EXCEPT ![s] = FALSE]
    /\ sweepDue' = [sweepDue EXCEPT ![s] = FALSE]
    /\ UNCHANGED <<now, life, smu, pc, srcDone, tickRet, imapVars, pop3Vars, mhVars,
                   histVars, dvars>>

\* Stop: close(s.done), then the IMAP Logout or the POP3 QUIT and Close of
\* the connection.  main calls it once its sources were started, whether or
\* not Start succeeded.  A second close would panic; it is called once.
Stop(s) ==
    /\ life[s].state \in {"failed", "running"}
    /\ ~srcDone[s]
    /\ srcDone' = [srcDone EXCEPT ![s] = TRUE]
    /\ UNCHANGED <<now, life, smu, pc, sweeper, sweepDue, tickRet, imapVars, pop3Vars,
                   mhVars, histVars, dvars>>

\* monitor, case <-s.done: return.
MonitorExit(s) ==
    /\ pc[s] = "idle"
    /\ srcDone[s]
    /\ pc' = [pc EXCEPT ![s] = "exit"]
    /\ UNCHANGED <<now, life, smu, srcDone, sweeper, sweepDue, tickRet, imapVars,
                   pop3Vars, mhVars, histVars, dvars>>

\* monitor: checkNewMessages returned (an error is only skipped over); back to
\* the select.  The tick's locals are gone.
MonitorLoop(s) ==
    /\ pc[s] = "ret"
    /\ pc' = [pc EXCEPT ![s] = "idle"]
    /\ tickRet' = "nil"
    /\ mbox' = NoMbox
    /\ atStart' = NoneKnown
    /\ criteria' = 0
    /\ messages' = <<>>
    /\ fetchRes' = "nil"
    /\ imapI' = 0
    /\ uidlList' = <<>>
    /\ pop3I' = 0
    /\ items' = <<>>
    /\ mhI' = 0
    /\ trace' = <<>>
    /\ UNCHANGED <<now, life, smu, srcDone, sweeper, sweepDue, uidValidity, processedUIDs,
                   lastUID, processedMsgs, processedIDs, lastID, calls, firstOK,
                   ran, evicted, dvars>>

\* A test that takes every Dispatch result for success.
NeverFailed(r) == FALSE

\* if err := s.dispatcher.Dispatch(mail); err != nil
DispatchFailed(r) == r # Nil

\* The source calls s.dispatcher.Dispatch(mail) for item x.
SourceDispatch(s, x, mail) ==
    /\ DispatchCall(s, mail)
    /\ pc' = [pc EXCEPT ![s] = "dispatch"]
    /\ calls' = [calls EXCEPT ![x] = Bump(@)]
    /\ UNCHANGED <<firstOK, ran, evicted>>

\* History when the Dispatch call for item x returns.
Returned(s, x, verdict) ==
    /\ call' = [call EXCEPT ![s] = [pc |-> "idle", mail |-> NoMail, ret |-> Nil]]
    /\ invoked' = [invoked EXCEPT ![s] = <<>>]
    /\ results' = [results EXCEPT ![s] = <<>>]
    /\ chainRes' = [chainRes EXCEPT ![s] = <<>>]
    /\ UNCHANGED phase
    /\ firstOK' = [firstOK EXCEPT ![x] = IF calls[x] = 1 THEN call[s].ret = Nil ELSE @]
    /\ ran' = [ran EXCEPT ![x] = @ \cup {invoked[s][k] : k \in 1..Len(invoked[s])}]
    /\ trace' = [trace EXCEPT ![Len(trace)].verdict = verdict]

\* One more item examined by the tick: whether its key was in the dedup map
\* at that moment, and what the loop did with it.
Examined(s, x, verdict) ==
    Append(trace, [id |-> x, marked |-> x \in DOMAIN Processed(s),
                   verdict |-> verdict])

\* ------------------------------------------------------------------- POP3
\* The answers to UIDL: (Number, ID) pairs, message numbers 1..n, each unique
\* id once.
UidlLists ==
    {[k \in 1..Len(f) |-> [Number |-> k, ID |-> f[k]]] : f \in InjSeqs(Items)}

\* A dedup key taken from the message number instead of the unique id.
KeyByNumber(msg) == msg.Number

\* The key of the dedup map: isProcessed(msg.ID), markProcessed(msg.ID).
POP3Key(msg) == msg.ID

\* mail.ID = fmt.Sprintf("pop3-%s", msg.ID); ParseMail leaves Source empty.
POP3Mail(id) == [id |-> <<"pop3", id>>, source |-> "", att |-> HasAttachments(id)]

\* checkNewMessages up to the loop: the UIDL command and the reading of its
\* answer, either of which may fail.
POP3Tick ==
    /\ pc["pop3"] = "idle"
    /\ \/ /\ pc' = [pc EXCEPT !["pop3"] = "ret"]
          /\ tickRet' = "err"
          /\ UNCHANGED <<uidlList, pop3I>>
       \/ \E list \in UidlLists :
             /\ ~srcDone["pop3"]   \* Stop has not closed the connection
             /\ uidlList' = list
             /\ pop3I' = 1
             /\ pc' = [pc EXCEPT !["pop3"] = "loop"]
             /\ UNCHANGED tickRet
    /\ UNCHANGED <<now, life, smu, srcDone, sweeper, sweepDue, processedMsgs, imapVars,
                   mhVars, histVars, dvars>>

\* A loop that goes on after a failed read of the message.
ContinueAfterReadErr == "loop"

\* Reading the retrieved message failed: return fmt.Errorf(...), the tick is
\* over.
AfterReadErr == "ret"

\* One pass of the loop over uidlList, up to the Dispatch call.
POP3Step ==
    /\ pc["pop3"] = "loop"
    /\ IF pop3I > Len(uidlList)
       THEN /\ pc' = [pc EXCEPT !["pop3"] = "ret"]
            /\ tickRet' = "nil"
            /\ UNCHANGED <<pop3I, histVars, dvars>>
       ELSE LET msg == uidlList[pop3I]
            IN  IF IsProcessed(processedMsgs, POP3Key(msg))
                THEN /\ pop3I' = pop3I + 1
                     /\ trace' = Examined("pop3", msg.ID, "processed")
                     /\ UNCHANGED <<pc, tickRet, calls, firstOK, ran,
                                    evicted, dvars>>
                ELSE \/ \* RETR answered -ERR, or ParseMail failed: continue
                        \E v \in {"retrErr", "parseErr"} :
                           /\ pop3I' = pop3I + 1
                           /\ trace' = Examined("pop3", msg.ID, v)
                           /\ UNCHANGED <<pc, tickRet, calls, firstOK, ran,
                                          evicted, dvars>>
                     \/ \* reading the message failed: return err
                        /\ pc' = [pc EXCEPT !["pop3"] = AfterReadErr]
                        /\ tickRet' = "err"
                        /\ trace' = Examined("pop3", msg.ID, "readErr")
                        /\ UNCHANGED <<pop3I, calls, firstOK, ran, evicted,
                                       dvars>>
                     \/ \* retrieved and parsed: Dispatch
                        /\ SourceDispatch("pop3", msg.ID, POP3Mail(msg.ID))
                        /\ trace' = Examined("pop3", msg.ID, "dispatch")
                        /\ UNCHANGED <<pop3I, tickRet, dfix>>
    /\ UNCHANGED <<now, life, smu, srcDone, sweeper, sweepDue, processedMsgs, uidlList,
                   imapVars, mhVars>>

\* Dispatch returned: an error ends the tick, nil marks the message.
POP3AfterDispatch ==
    /\ pc["pop3"] = "dispatch"
    /\ call["pop3"].pc = "ret"
    /\ LET msg == uidlList[pop3I]
       IN  IF DispatchFailed(call["pop3"].ret)
           THEN /\ pc' = [pc EXCEPT !["pop3"] = "ret"]
                /\ tickRet' = "err"
                /\ Returned("pop3", msg.ID, "dispatchErr")
                /\ UNCHANGED <<processedMsgs, pop3I, evicted>>
           ELSE /\ processedMsgs' = MarkProcessed(processedMsgs, POP3Key(msg), now)
                /\ pop3I' = pop3I + 1
                /\ pc' = [pc EXCEPT !["pop3"] = "loop"]
                /\ evicted' = evicted \ {msg.ID}
                /\ Returned("pop3", msg.ID, "ok")
                /\ UNCHANGED tickRet
    /\ UNCHANGED <<now, life, smu, srcDone, sweeper, sweepDue, uidlList, imapVars, mhVars,
                   calls, dfix, jobErr>>

\* ------------------------------------------------------------------- IMAP
\* What Select("INBOX") may report: a validity value and the UIDs present.
Mailboxes == [UidValidity : Validities, uids : SUBSET Items]

\* checkNewMessages, the UIDVALIDITY test: a known validity that differs from
\* the reported one.
ValidityChanged(known, reported) == known # 0 /\ known # reported

\* A reset that clears the map but keeps the watermark.
AfterSelectKeepsWatermark(st, reported) ==
    IF ValidityChanged(st.uidValidity, reported)
    THEN [uidValidity |-> reported, processedUIDs |-> EmptyMap,
          lastUID |-> st.lastUID]
    ELSE IF st.uidValidity = 0
         THEN [st EXCEPT !.uidValidity = reported]
         ELSE st

\* checkNewMessages after Select: on a validity change the map is replaced by
\* an empty one and lastUID set to 0; a validity of 0 (first run) is set to
\* the reported one.  st is [uidValidity, processedUIDs, lastUID].
AfterSelect(st, reported) ==
    IF ValidityChanged(st.uidValidity, reported)
    THEN [uidValidity |-> reported, processedUIDs |-> EmptyMap, lastUID |-> 0]
    ELSE IF st.uidValidity = 0
         THEN [st EXCEPT !.uidValidity = reported]
         ELSE st

\* The search criteria: UIDs lastUID+1:* when lastUID > 0, else no range.
\* The value is the lower bound, 0 for none.
Criteria(last) == IF last > 0 THEN last + 1 ELSE 0

\* What UidSearch may answer for the mailbox: the UIDs from the lower bound
\* on; a range n:* also matches the highest UID present when n is above it,
\* which a server may or may not report.
SearchResults(crit, uids) ==
    IF crit = 0 THEN {uids}
    ELSE {{u \in uids : u >= crit},
          {u \in uids : u >= crit} \cup (IF uids = {} THEN {} ELSE {Max(uids)})}

\* mail.ID = fmt.Sprintf("imap-%d-%d", s.uidValidity, msg.Uid); Source is
\* left empty.
IMAPMail(validity, uid) ==
    [id |-> <<"imap", validity, uid>>, source |-> "", att |-> HasAttachments(uid)]

\* checkNewMessages up to the range loop: Select, the validity test, the
\* search and the start of UidFetch.  The server delivers the messages found
\* in any order; when it delivers only some, UidFetch reports an error.
IMAPTick ==
    /\ pc["imap"] = "idle"
    /\ \/ \* Select failed
          /\ pc' = [pc EXCEPT !["imap"] = "ret"]
          /\ tickRet' = "err"
          /\ UNCHANGED <<imapVars, histVars>>
       \/ \E mb \in Mailboxes :
             ~srcDone["imap"] /\   \* Stop has not logged the client out
             LET st == AfterSelect([uidValidity |-> uidValidity,
                                    processedUIDs |-> processedUIDs,
                                    lastUID |-> lastUID], mb.UidValidity)
                 reset == ValidityChanged(uidValidity, mb.UidValidity)
             IN  /\ mbox' = mb
                 /\ atStart' = [uidValidity |-> uidValidity, lastUID |-> lastUID]
                 /\ uidValidity' = st.uidValidity
                 /\ processedUIDs' = st.processedUIDs
                 /\ lastUID' = st.lastUID
                 /\ calls' = IF reset THEN ForgetCalls(Items) ELSE calls
                 /\ firstOK' = IF reset THEN ForgetFirst(Items) ELSE firstOK
                 /\ ran' = IF reset THEN ForgetRan(Items) ELSE ran
                 /\ evicted' = IF reset THEN {} ELSE evicted
                 /\ UNCHANGED trace
                 /\ IF mb.uids = {}
                    THEN \* mbox.Messages == 0
                         /\ pc' = [pc EXCEPT !["imap"] = "ret"]
                         /\ tickRet' = "nil"
                         /\ UNCHANGED <<criteria, messages, fetchRes, imapI>>
                    ELSE /\ criteria' = Criteria(st.lastUID)
                         /\ \/ \* UidSearch failed
                               /\ pc' = [pc EXCEPT !["imap"] = "ret"]
                               /\ tickRet' = "err"
                               /\ UNCHANGED <<messages, fetchRes, imapI>>
                            \/ \E uids \in SearchResults(Criteria(st.lastUID), mb.uids) :
                                  IF uids = {}
                                  THEN /\ pc' = [pc EXCEPT !["imap"] = "ret"]
                                       /\ tickRet' = "nil"
                                       /\ UNCHANGED <<messages, fetchRes, imapI>>
                                  ELSE \E ms \in InjSeqs(uids) :
                                          /\ messages' = ms
                                          /\ fetchRes' = IF Len(ms) = Cardinality(uids)
                                                         THEN "nil" ELSE "err"
                                          /\ imapI' = 1
                                          /\ pc' = [pc EXCEPT !["imap"] = "loop"]
                                          /\ UNCHANGED tickRet
    /\ UNCHANGED <<now, life, smu, srcDone, sweeper, sweepDue, pop3Vars, mhVars, dvars>>

\* One pass of the loop over the messages channel, up to the Dispatch call;
\* after the last message, return <-done.
IMAPStep ==
    /\ pc["imap"] = "loop"
    /\ IF imapI > Len(messages)
       THEN /\ pc' = [pc EXCEPT !["imap"] = "ret"]
            /\ tickRet' = fetchRes
            /\ UNCHANGED <<imapI, histVars, dvars>>
       ELSE LET uid == messages[imapI]
            IN  IF IsProcessed(processedUIDs, uid)
                THEN /\ imapI' = imapI + 1
                     /\ trace' = Examined("imap", uid, "processed")
                     /\ UNCHANGED <<pc, tickRet, calls, firstOK, ran, evicted, dvars>>
                ELSE \/ \* no body section, or ParseMail failed: continue
                        \E v \in {"noBody", "parseErr"} :
                           /\ imapI' = imapI + 1
                           /\ trace' = Examined("imap", uid, v)
                           /\ UNCHANGED <<pc, tickRet, calls, firstOK, ran,
                                          evicted, dvars>>
                     \/ \* parsed: Dispatch
                        /\ SourceDispatch("imap", uid, IMAPMail(uidValidity, uid))
                        /\ trace' = Examined("imap", uid, "dispatch")
                        /\ UNCHANGED <<imapI, tickRet, dfix>>
    /\ UNCHANGED <<now, life, smu, srcDone, sweeper, sweepDue, uidValidity, processedUIDs,
                   lastUID, mbox, atStart, criteria, messages, fetchRes, pop3Vars,
                   mhVars>>

\* markProcessed of IMAPSource also sets s.lastUID = uid.
IMAPLastUID(last, uid) == uid

\* Dispatch returned: an error ends the tick, nil marks the message.
IMAPAfterDispatch ==
    /\ pc["imap"] = "dispatch"
    /\ call["imap"].pc = "ret"
    /\ LET uid == messages[imapI]
       IN  IF DispatchFailed(call["imap"].ret)
           THEN /\ pc' = [pc EXCEPT !["imap"] = "ret"]
                /\ tickRet' = "err"
                /\ Returned("imap", uid, "dispatchErr")
                /\ UNCHANGED <<processedUIDs, lastUID, imapI, evicted>>
           ELSE /\ processedUIDs' = MarkProcessed(processedUIDs, uid, now)
                /\ lastUID' = IMAPLastUID(lastUID, uid)
                /\ imapI' = imapI + 1
                /\ pc' = [pc EXCEPT !["imap"] = "loop"]
                /\ evicted' = evicted \ {uid}
                /\ Returned("imap", uid, "ok")
                /\ UNCHANGED tickRet
    /\ UNCHANGED <<now, life, smu, srcDone, sweeper, sweepDue, uidValidity, mbox, atStart,
                   criteria, messages, fetchRes, pop3Vars, mhVars, calls, dfix,
                   jobErr>>

\* ---------------------------------------------------------------- MailHog
\* Name(): the configured name of the MailHog source.
MailHogName == "mailhog-1"

\* Name() of each source: config.Name, as set in the configuration file.
Name(s) ==
    CASE s = "imap" -> "imap-1"
      [] s = "pop3" -> "pop3-1"
      [] s = "mailhog" -> MailHogName
      [] s = "smtp" -> "smtp-1"

\* The items of an API response: each id once, in the server's order.
Responses == InjSeqs(Items)

\* mail.ID = string(msg.ID); mail.Source = s.Name().
MailHogMail(id) == [id |-> <<id>>, source |-> MailHogName, att |-> HasAttachments(id)]

\* A loop that starts at the head of the response.
FirstIndexAtHead(list) == IF list = <<>> THEN 0 ELSE 1

\* The loop starts at i = len(Items) - 1 (positions count from 1 here).
FirstIndex(list) == Len(list)
\* i-- moves to the next item; the loop runs while i >= 0.
NextIndex(i) == i - 1
LoopEnded(i, list) == i < 1

\* checkNewMessages up to the loop: the GET, the status test and the JSON
\* decoding, any of which may fail.
MailHogTick ==
    /\ pc["mailhog"] = "idle"
    /\ \/ /\ pc' = [pc EXCEPT !["mailhog"] = "ret"]
          /\ tickRet' = "err"
          /\ UNCHANGED <<items, mhI>>
       \/ \E resp \in Responses :
             /\ items' = resp
             /\ mhI' = FirstIndex(resp)
             /\ pc' = [pc EXCEPT !["mailhog"] = "loop"]
             /\ UNCHANGED tickRet
    /\ UNCHANGED <<now, life, smu, srcDone, sweeper, sweepDue, processedIDs, lastID,
                   imapVars, pop3Vars, histVars, dvars>>

\* One pass of the loop over apiResp.Items, up to the Dispatch call.
MailHogStep ==
    /\ pc["mailhog"] = "loop"
    /\ IF LoopEnded(mhI, items)
       THEN /\ pc' = [pc EXCEPT !["mailhog"] = "ret"]
            /\ tickRet' = "nil"
            /\ UNCHANGED <<mhI, histVars, dvars>>
       ELSE LET id == items[mhI]
            IN  IF IsProcessed(processedIDs, id)
                THEN /\ mhI' = NextIndex(mhI)
                     /\ trace' = Examined("mailhog", id, "processed")
                     /\ UNCHANGED <<pc, tickRet, calls, firstOK, ran, evicted, dvars>>
                ELSE \/ \* ParseMail failed: continue
                        /\ mhI' = NextIndex(mhI)
                        /\ trace' = Examined("mailhog", id, "parseErr")
                        /\ UNCHANGED <<pc, tickRet, calls, firstOK, ran, evicted,
                                       dvars>>
                     \/ \* parsed: Dispatch
                        /\ SourceDispatch("mailhog", id, MailHogMail(id))
                        /\ trace' = Examined("mailhog", id, "dispatch")
                        /\ UNCHANGED <<mhI, tickRet, dfix>>
    /\ UNCHANGED <<now, life, smu, srcDone, sweeper, sweepDue, processedIDs, lastID, items,
                   imapVars, pop3Vars>>

\* Dispatch returned: an error ends the tick, nil marks the message; after
\* the item at i == 0 its id is stored in lastID.
MailHogAfterDispatch ==
    /\ pc["mailhog"] = "dispatch"
    /\ call["mailhog"].pc = "ret"
    /\ LET id == items[mhI]
       IN  IF DispatchFailed(call["mailhog"].ret)
           THEN /\ pc' = [pc EXCEPT !["mailhog"] = "ret"]
                /\ tickRet' = "err"
                /\ Returned("mailhog", id, "dispatchErr")
                /\ UNCHANGED <<processedIDs, lastID, mhI, evicted>>
           ELSE /\ processedIDs' = MarkProcessed(processedIDs, id, now)
                /\ lastID' = IF mhI = 1 THEN id ELSE lastID
                /\ mhI' = NextIndex(mhI)
                /\ pc' = [pc EXCEPT !["mailhog"] = "loop"]
                /\ evicted' = evicted \ {id}
                /\ Returned("mailhog", id, "ok")
                /\ UNCHANGED tickRet
    /\ UNCHANGED <<now, life, smu, srcDone, sweeper, sweepDue, items, imapVars, pop3Vars,
                   calls, dfix, jobErr>>

\* ------------------------------------------------------------------- SMTP
\* Strings are sequences of tokens, the empty string the empty sequence.
\* What ParseMail may return for a message: the Message-ID header value
\* (empty when absent), the From and To address lists (empty when the
\* header is absent or does not parse: the AddressList error is dropped),
\* the date and whether there are attachments.
AddressLists == {<<>>, <<"a">>, <<"b", "a">>}
SMTPMessages ==
    [MessageID : {<<>>, <<"m1">>}, From : AddressLists, To : AddressLists,
     Date : {<<"d1">>, <<"d2">>}, att : BOOLEAN, parsed : {TRUE}]

\* The errors Data returns without calling Dispatch.
ReadErr == [handler |-> "io.Copy", mail |-> <<>>]
ParseErr == [handler |-> "ParseMail", mail |-> <<>>]

\* fmt.Sprintf("%s:%s:%s", mail.Date, mail.From[0].String(), mail.To[0].String())
Sprintf3(a, b, c) == a \o <<":">> \o b \o <<":">> \o c

\* A Data that takes the Message-ID value as the id whatever it is.
AlwaysMessageID(m) == TRUE

\* mail.ID = mail.MessageID; the second if mail.ID == "" finds an id.
HasMessageID(m) == m.MessageID # <<>>

\* Session.Data up to the Dispatch call.  ParseMail leaves mail.ID empty, so
\* the id is the Message-ID value, and when that is empty the fallback,
\* whose From[0] or To[0] panics on an empty list (go-smtp recovers, answers
\* 421 and closes the connection).
SMTPData ==
    /\ smtp.pc = "idle"
    /\ \/ /\ smtp' = [NoData EXCEPT !.pc = "ret", !.ret = ReadErr]
          /\ UNCHANGED <<call, jobErr, invoked, results, chainRes, phase>>
       \/ /\ smtp' = [NoData EXCEPT !.pc = "ret", !.ret = ParseErr]
          /\ UNCHANGED <<call, jobErr, invoked, results, chainRes, phase>>
       \/ \E m \in SMTPMessages :
             IF m.MessageID = <<>> /\ (m.From = <<>> \/ m.To = <<>>)
             THEN /\ smtp' = [NoData EXCEPT !.pc = "panic", !.msg = m]
                  /\ UNCHANGED <<call, jobErr, invoked, results, chainRes, phase>>
             ELSE LET id == IF HasMessageID(m) THEN m.MessageID
                            ELSE Sprintf3(m.Date, <<m.From[1]>>, <<m.To[1]>>)
                  IN  /\ DispatchCall("smtp", [id |-> id, source |-> "", att |-> m.att])
                      /\ smtp' = [NoData EXCEPT !.pc = "dispatch", !.msg = m,
                                                !.dispatched = TRUE]
    /\ UNCHANGED <<handlers, handlersMap, workers, mailCh, done, runPc, runJob,
                   task, releasing, lastOp, auxVars>>
    /\ UNCHANGED svars

\* return s.dispatcher.Dispatch(mail).
SMTPReturn ==
    /\ smtp.pc = "dispatch"
    /\ call["smtp"].pc = "ret"
    /\ smtp' = [smtp EXCEPT !.pc = "ret", !.ret = call["smtp"].ret]
    /\ UNCHANGED <<handlers, handlersMap, workers, mailCh, done, runPc, runJob,
                   task, releasing, jobErr, call, invoked, results, chainRes,
                   phase, lastOp, auxVars>>
    /\ UNCHANGED svars

\* The client's next DATA, in this session or, after a panic, a new one.
SMTPNext ==
    /\ smtp.pc \in {"ret", "panic"}
    /\ smtp' = NoData
    /\ call' = [call EXCEPT !["smtp"] = [pc |-> "idle", mail |-> NoMail, ret |-> Nil]]
    /\ invoked' = [invoked EXCEPT !["smtp"] = <<>>]
    /\ results' = [results EXCEPT !["smtp"] = <<>>]
    /\ chainRes' = [chainRes EXCEPT !["smtp"] = <<>>]
    /\ UNCHANGED <<handlers, handlersMap, workers, mailCh, done, runPc, runJob,
                   task, releasing, jobErr, phase, lastOp, auxVars>>
    /\ UNCHANGED svars

\* main: disp := dispatcher.New(), then one AddHandlers call with three
\* handlers, before any source is started.
MainHandlers == <<"A", "B", "C">>

\* A dispatcher on which AddHandlers(hs) was called once and nothing else.
InitWith(hs) ==
    /\ handlers = AppendNew(<<>>, {}, hs)[1]
    /\ handlersMap = AppendNew(<<>>, {}, hs)[2]
    /\ workers = 0
    /\ mailCh = <<>>
    /\ done = FALSE
    /\ runPc = "select"
    /\ runJob = NoJob
    /\ task = [c \in Callers |-> NoTask]
    /\ releasing = 0
    /\ jobErr = [c \in Callers |-> <<>>]
    /\ call = [c \in Callers |-> [pc |-> "idle", mail |-> NoMail, ret |-> Nil]]
    /\ invoked = [c \in Callers |-> <<>>]
    /\ results = [c \in Callers |-> <<>>]
    /\ chainRes = [c \in Callers |-> <<>>]
    /\ phase = [c \in Callers |-> Open]
    /\ lastOp = NoOp
    /\ smtp = NoData
    /\ dmu = RWUnlocked
    /\ reg = [g \in Registrars |-> NoCall]
    /\ main = NotStarted
    /\ retr = NoRetr

InitMain == InitWith(MainHandlers)

\* Spec: no polling source is configured; goroutines call Dispatch directly.
Init == InitMain /\ InitSources({})


Next ==
    \/ \E c \in DirectCallers : Dispatch(c)
    \/ \E c \in DirectCallers : Return(c)
    \/ \E c \in DirectCallers : DispatchSend(c)
    \/ \E c \in DirectCallers : DispatchRecv(c)
    \/ RunRecv
    \/ RunAcquire
    \/ \E c \in DirectCallers : TaskSnapshot(c)
    \/ \E c \in DirectCallers : TaskNext(c)
    \/ \E c \in DirectCallers : TaskHandleReturn(c)
    \/ \E c \in DirectCallers : TaskSend(c)
    \/ TaskRelease

Spec == Init /\ [][Next]_vars

\* SpecLive: Spec under fair scheduling.  Goroutines blocked on a channel
\* send are served in the order they arrived, so a caller that finds the
\* queue full again and again still gets its job in; every started goroutine
\* runs, and every Handle call returns.  Nothing makes a goroutine call
\* Dispatch.
FairLive ==
    /\ \A c \in DirectCallers :
          /\ SF_vars(DispatchSend(c))
          /\ WF_vars(DispatchRecv(c))
          /\ WF_vars(TaskSnapshot(c))
          /\ WF_vars(TaskNext(c))
          /\ WF_vars(TaskHandleReturn(c))
          /\ WF_vars(TaskSend(c))
    /\ WF_vars(RunRecv)
    /\ WF_vars(RunAcquire)
    /\ WF_vars(TaskRelease)

SpecLive == Init /\ [][Next]_vars /\ FairLive

\* SpecMany: more goroutines call Dispatch at once than the queue, run and
\* the worker slots can take in, under the fair scheduling of SpecLive.
NextMany ==
    \/ \E c \in ManyCallers : Dispatch(c)
    \/ \E c \in ManyCallers : Return(c)
    \/ \E c \in ManyCallers : DispatchSend(c)
    \/ \E c \in ManyCallers : DispatchRecv(c)
    \/ RunRecv
    \/ RunAcquire
    \/ \E c \in ManyCallers : TaskSnapshot(c)
    \/ \E c \in ManyCallers : TaskNext(c)
    \/ \E c \in ManyCallers : TaskHandleReturn(c)
    \/ \E c \in ManyCallers : TaskSend(c)
    \/ TaskRelease

FairMany ==
    /\ \A c \in ManyCallers :
          /\ SF_vars(DispatchSend(c))
          /\ WF_vars(DispatchRecv(c))
          /\ WF_vars(TaskSnapshot(c))
          /\ WF_vars(TaskNext(c))
          /\ WF_vars(TaskHandleReturn(c))
          /\ WF_vars(TaskSend(c))
    /\ WF_vars(RunRecv)
    /\ WF_vars(RunAcquire)
    /\ WF_vars(TaskRelease)

\* One handler is registered, whose Handle returns nil or an error.
InitMany == InitWith(<<"A">>) /\ InitSources({})

SpecMany == InitMany /\ [][NextMany]_vars /\ FairMany

\* SpecHung: SpecLive with Handle calls that may never return.
NextHung ==
    \/ \E c \in DirectCallers : Dispatch(c)
    \/ \E c \in DirectCallers : Return(c)
    \/ \E c \in DirectCallers : DispatchSend(c)
    \/ \E c \in DirectCallers : DispatchRecv(c)
    \/ RunRecv
    \/ RunAcquire
    \/ \E c \in DirectCallers : TaskSnapshot(c)
    \/ \E c \in DirectCallers : TaskNext(c)
    \/ \E c \in DirectCallers : TaskHandleReturn(c)
    \/ \E c \in DirectCallers : TaskHang(c)
    \/ \E c \in DirectCallers : TaskSend(c)
    \/ TaskRelease

SpecHung == InitMany /\ [][NextHung]_vars /\ FairLive

\* SpecMut: one goroutine calls Dispatch while another adds and removes
\* handlers.
MutCallers == {"c1"}
MutRegistrars == {"r1"}

NextMut ==
    \/ \E c \in MutCallers : Dispatch(c)
    \/ \E c \in MutCallers : Return(c)
    \/ \E c \in MutCallers : DispatchSend(c)
    \/ \E c \in MutCallers : DispatchRecv(c)
    \/ RunRecv
    \/ RunAcquire
    \/ \E c \in MutCallers : TaskSnapshot(c)
    \/ \E c \in MutCallers : TaskNext(c)
    \/ \E c \in MutCallers : TaskHandleReturn(c)
    \/ \E c \in MutCallers : TaskSend(c)
    \/ TaskRelease
    \/ \E g \in MutRegistrars : \E op \in {"add", "remove"} : \E hs \in RegArgs :
          RegLock(g, op, hs)
    \/ \E g \in MutRegistrars : RegCheck(g)
    \/ \E g \in MutRegistrars : RegWrite(g)
    \/ \E g \in MutRegistrars : RegUnlock(g)

SpecMut == Init /\ [][NextMut]_vars

\* SpecClose: two goroutines call Dispatch while main closes the dispatcher.
CloseCallers == {"c1", "c2"}

NextClose ==
    \/ \E c \in CloseCallers : Dispatch(c)
    \/ \E c \in CloseCallers : Return(c)
    \/ \E c \in CloseCallers : DispatchSend(c)
    \/ \E c \in CloseCallers : DispatchDone(c)
    \/ \E c \in CloseCallers : DispatchRecv(c)
    \/ RunDone
    \/ RunRecv
    \/ RunAcquire
    \/ \E c \in CloseCallers : TaskSnapshot(c)
    \/ \E c \in CloseCallers : TaskNext(c)
    \/ \E c \in CloseCallers : TaskHandleReturn(c)
    \/ \E c \in CloseCallers : TaskSend(c)
    \/ TaskRelease
    \/ Close

\* The Go scheduler runs every goroutine that can take a step: a select with
\* a ready case proceeds, a started goroutine runs to its end, a Handle call
\* returns.  Nothing makes a goroutine call Dispatch, or main call Close.
FairClose ==
    /\ \A c \in CloseCallers :
          /\ WF_vars(DispatchSend(c) \/ DispatchDone(c))
          /\ WF_vars(DispatchRecv(c))
          /\ WF_vars(TaskSnapshot(c))
          /\ WF_vars(TaskNext(c))
          /\ WF_vars(TaskHandleReturn(c))
          /\ WF_vars(TaskSend(c))
    /\ WF_vars(RunDone \/ RunRecv)
    /\ WF_vars(RunAcquire)
    /\ WF_vars(TaskRelease)

SpecClose == Init /\ [][NextClose]_vars /\ FairClose

\* SpecReg: a new dispatcher on which handlers are added and removed.
InitReg == InitDispatcher /\ InitSources({})

NextReg ==
    \/ \E hs \in HandlerArgs : AddHandlers(hs)
    \/ \E hs \in HandlerArgs : RemoveHandlers(hs)

SpecReg == InitReg /\ [][NextReg]_vars

\* SpecRegs: two goroutines add and remove handlers on a new dispatcher.
NextRegs ==
    \/ \E g \in Registrars : \E op \in {"add", "remove"} : \E hs \in RegArgs :
          RegLock(g, op, hs)
    \/ \E g \in Registrars : RegCheck(g)
    \/ \E g \in Registrars : RegWrite(g)
    \/ \E g \in Registrars : RegUnlock(g)

SpecRegs == InitReg /\ [][NextRegs]_vars

\* SpecSMTP: the SMTP source alone; its session calls Dispatch from Data.
NextSMTP ==
    \/ SMTPData
    \/ SMTPReturn
    \/ SMTPNext
    \/ DispatchSend("smtp")
    \/ DispatchRecv("smtp")
    \/ RunRecv
    \/ RunAcquire
    \/ TaskSnapshot("smtp")
    \/ TaskNext("smtp")
    \/ TaskHandleReturn("smtp")
    \/ TaskSend("smtp")
    \/ TaskRelease

SpecSMTP == Init /\ [][NextSMTP]_vars

\* SpecSrc: main has registered its handlers and started one polling source.
InitSrc == InitMain /\ \E s \in PollingSources : InitSources({s})

NextSrc ==
    \/ IMAPTick
    \/ IMAPStep
    \/ IMAPAfterDispatch
    \/ MailHogTick
    \/ MailHogStep
    \/ MailHogAfterDispatch
    \/ POP3Tick
    \/ POP3Step
    \/ POP3AfterDispatch
    \/ \E s \in PollingSources : MonitorLoop(s)
    \/ \E s \in PollingSources : Sweep(s)
    \/ Advance
    \/ \E c \in PollingSources : DispatchSend(c)
    \/ \E c \in PollingSources : DispatchRecv(c)
    \/ RunRecv
    \/ RunAcquire
    \/ \E c \in PollingSources : TaskSnapshot(c)
    \/ \E c \in PollingSources : TaskNext(c)
    \/ \E c \in PollingSources : TaskHandleReturn(c)
    \/ \E c \in PollingSources : TaskSend(c)
    \/ TaskRelease

SpecSrc == InitSrc /\ [][NextSrc]_vars

\* SpecLife: main creates one polling source, starts it, and on the signal
\* stops it and then closes the dispatcher (the deferred disp.Close()),
\* while the source's goroutines may still be running.
InitLife ==
    /\ InitMain
    /\ \E s \in PollingSources : \E cfg \in Configs(s) :
          InitSourcesAs([t \in PollingSources |->
                           IF t = s THEN Created(cfg) ELSE NotCreated])

\* main returns after the Stop loop; its deferred disp.Close() runs.
MainClose ==
    /\ \A s \in PollingSources : life[s].state # "none" => srcDone[s]
    /\ Close

NextLife ==
    \/ \E s \in PollingSources : Start(s)
    \/ \E s \in PollingSources : Stop(s)
    \/ \E s \in PollingSources : MonitorExit(s)
    \/ \E s \in PollingSources : SweeperExit(s)
    \/ MainClose
    \/ IMAPTick
    \/ IMAPStep
    \/ IMAPAfterDispatch
    \/ MailHogTick
    \/ MailHogStep
    \/ MailHogAfterDispatch
    \/ POP3Tick
    \/ POP3Step
    \/ POP3AfterDispatch
    \/ \E s \in PollingSources : MonitorLoop(s)
    \/ \E c \in PollingSources : DispatchSend(c)
    \/ \E c \in PollingSources : DispatchDone(c)
    \/ \E c \in PollingSources : DispatchRecv(c)
    \/ RunDone
    \/ RunRecv
    \/ RunAcquire
    \/ \E c \in PollingSources : TaskSnapshot(c)
    \/ \E c \in PollingSources : TaskNext(c)
    \/ \E c \in PollingSources : TaskHandleReturn(c)
    \/ \E c \in PollingSources : TaskSend(c)
    \/ TaskRelease

SpecLife == InitLife /\ [][NextLife]_vars

\* A source whose methods do not wait for s.mu.
NoLock(s) == TRUE

\* s.mu.Lock() and s.mu.RLock() return: no sweep holds the lock.  (The
\* methods of the polling goroutine hold it for one step only.)
CanLock(s) == smu[s].holder = "free"

\* clean*, case <-ticker.C: s.mu.Lock(); now := time.Now(); the range loop
\* begins over the keys in the map.
SweepBegin(s) ==
    /\ sweeper[s]
    /\ sweepDue[s]
    /\ CanLock(s)
    /\ sweepDue' = [sweepDue EXCEPT ![s] = FALSE]
    /\ smu' = [smu EXCEPT ![s] = [holder |-> "sweep", at |-> now,
                                  todo |-> DOMAIN Processed(s), gone |-> {}]]
    /\ UNCHANGED <<now, life, pc, srcDone, sweeper, tickRet, imapVars, pop3Vars,
                   mhVars, histVars, dvars>>

\* One iteration of the sweep's range loop, in whatever order the map gives
\* its keys: the entry is deleted when it has expired.
SweepVisit(s) ==
    /\ smu[s].holder = "sweep"
    /\ \E x \in smu[s].todo :
          LET del == Expired(Processed(s)[x], smu[s].at)
              drop(map) == [y \in DOMAIN map \ {x} |-> map[y]]
          IN  /\ smu' = [smu EXCEPT ![s].todo = @ \ {x},
                                    ![s].gone = IF del THEN @ \cup {x} ELSE @]
              /\ processedUIDs' = IF s = "imap" /\ del THEN drop(processedUIDs)
                                                       ELSE processedUIDs
              /\ processedMsgs' = IF s = "pop3" /\ del THEN drop(processedMsgs)
                                                       ELSE processedMsgs
              /\ processedIDs' = IF s = "mailhog" /\ del THEN drop(processedIDs)
                                                         ELSE processedIDs
              /\ evicted' = IF del THEN evicted \cup {x} ELSE evicted
    /\ UNCHANGED <<now, life, pc, srcDone, sweeper, sweepDue, tickRet,
                   uidValidity, lastUID, mbox, atStart, criteria, messages,
                   fetchRes, imapI, uidlList, pop3I, lastID, items, mhI, trace,
                   calls, firstOK, ran, dvars>>

\* The range loop is over: s.mu.Unlock().
SweepEnd(s) ==
    /\ smu[s].holder = "sweep"
    /\ smu[s].todo = {}
    /\ smu' = [smu EXCEPT ![s] = Unlocked]
    /\ UNCHANGED <<now, life, pc, srcDone, sweeper, sweepDue, tickRet, imapVars,
                   pop3Vars, mhVars, histVars, dvars>>

\* isProcessed(x) of source s, called on its own; the history keeps what it
\* returned.
CheckCall(s, x) ==
    /\ pc[s] = "idle"
    /\ CanLock(s)
    /\ trace' = <<[id |-> x, marked |-> IsProcessed(Processed(s), x),
                   verdict |-> "check"]>>
    /\ UNCHANGED <<now, life, smu, pc, srcDone, sweeper, sweepDue, tickRet,
                   imapVars, pop3Vars, mhVars, calls, firstOK, ran, evicted,
                   dvars>>

\* markProcessed(x) of source s, called on its own.  The history keeps the
\* last call only: its argument, whether the key was in the map, and whether
\* the call before it marked the same key, which is still there ("remark").
MarkCall(s, x) ==
    /\ pc[s] = "idle"
    /\ CanLock(s)
    /\ processedUIDs' = IF s = "imap" THEN MarkProcessed(processedUIDs, x, now)
                                      ELSE processedUIDs
    /\ lastUID' = IF s = "imap" THEN IMAPLastUID(lastUID, x) ELSE lastUID
    /\ processedMsgs' = IF s = "pop3" THEN MarkProcessed(processedMsgs, x, now)
                                      ELSE processedMsgs
    /\ processedIDs' = IF s = "mailhog" THEN MarkProcessed(processedIDs, x, now)
                                        ELSE processedIDs
    /\ trace' = <<[id |-> x, marked |-> IsProcessed(Processed(s), x),
                   verdict |-> IF /\ trace # <<>>
                                  /\ trace[1].id = x
                                  /\ IsProcessed(Processed(s), x)
                               THEN "remark" ELSE "mark"]>>
    /\ evicted' = evicted \ {x}
    /\ UNCHANGED <<now, life, smu, pc, srcDone, sweeper, sweepDue, tickRet,
                   uidValidity, mbox, atStart, criteria, messages, fetchRes,
                   imapI, uidlList, pop3I, lastID, items, mhI, calls, firstOK,
                   ran, dvars>>

\* SpecMark: the dedup record of one polling source under markProcessed
\* calls, the clock and the sweep.
NextMark ==
    \/ \E s \in PollingSources : \E x \in Items : MarkCall(s, x)
    \/ \E s \in PollingSources : Sweep(s)
    \/ Advance

SpecMark == InitSrc /\ [][NextMark]_vars

\* SpecLock: the polling goroutine's isProcessed and markProcessed calls
\* against the sweep goroutine taken one map entry at a time.
NextLock ==
    \/ \E s \in PollingSources : \E x \in Items : MarkCall(s, x)
    \/ \E s \in PollingSources : \E x \in Items : CheckCall(s, x)
    \/ \E s \in PollingSources : SweepBegin(s)
    \/ \E s \in PollingSources : SweepVisit(s)
    \/ \E s \in PollingSources : SweepEnd(s)
    \/ Advance

SpecLock == InitSrc /\ [][NextLock]_vars

\* -------------------------------------------------------------- POP3 RETR
\* Longest answer to RETR, in lines.
MaxLines == 3

\* The lines a server may send, without their CRLF: text, the lone dot, and
\* lines that begin with a dot.
WireLines == {<<"x">>, <<".">>, <<".", "x">>, <<".", ".">>, <<".", ".", "x">>}

\* sendCommand("RETR n") returned the +OK line; the server sends the lines
\* of its answer and then nothing more.
RetrCommand ==
    /\ retr.pc = "off"
    /\ \E n \in 0..MaxLines : \E w \in [1..n -> WireLines] :
          retr' = [pc |-> "read", sent |-> w, wire |-> w, messageData |-> <<>>]
    /\ UNCHANGED <<handlers, handlersMap, workers, mailCh, done, runPc, runJob,
                   task, releasing, jobErr, call, invoked, results, chainRes,
                   phase, lastOp, smtp, dmu, reg, main, svars>>

\* line, err := s.reader.ReadString('\n') with a line to read: the loop ends
\* at a line that is ".\r\n"; any other line is written to messageData as
\* it is.
RetrLine ==
    /\ retr.pc = "read"
    /\ retr.wire # <<>>
    /\ LET line == Head(retr.wire)
       IN  IF line = <<".">>
           THEN retr' = [retr EXCEPT !.pc = "parse", !.wire = Tail(@)]
           ELSE retr' = [retr EXCEPT !.wire = Tail(@),
                                     !.messageData = Append(@, line)]
    /\ UNCHANGED <<handlers, handlersMap, workers, mailCh, done, runPc, runJob,
                   task, releasing, jobErr, call, invoked, results, chainRes,
                   phase, lastOp, smtp, dmu, reg, main, svars>>

\* ReadString fails (the connection ended before the lone dot): return err.
RetrErr ==
    /\ retr.pc = "read"
    /\ retr.wire = <<>>
    /\ retr' = [retr EXCEPT !.pc = "err"]
    /\ UNCHANGED <<handlers, handlersMap, workers, mailCh, done, runPc, runJob,
                   task, releasing, jobErr, call, invoked, results, chainRes,
                   phase, lastOp, smtp, dmu, reg, main, svars>>

\* SpecRetr: one RETR of the POP3 source, from the +OK line to ParseMail.
NextRetr ==
    \/ RetrCommand
    \/ RetrLine
    \/ RetrErr

SpecRetr == Init /\ [][NextRetr]_vars

\* ------------------------------------------------------------------- main
\* The four source loops of main, in their order.
SourceKinds == <<"smtp", "imap", "pop3", "mailhog">>

\* What main's steps leave alone.
notMain == <<handlers, handlersMap, workers, mailCh, done, runPc, runJob, task,
             releasing, jobErr, call, invoked, results, chainRes, phase, lastOp,
             smtp, dmu, reg, retr>>

\* yaml.Unmarshal: the configuration, here the kinds that have an enabled
\* entry.
MainConfig ==
    /\ main.pc = "off"
    /\ \E E \in SUBSET {SourceKinds[j] : j \in 1..Len(SourceKinds)} :
          main' = [main EXCEPT !.pc = "sources", !.enabled = E]
    /\ UNCHANGED <<notMain, svars>>

\* One entry of a source loop: a disabled one is skipped; for an enabled one
\* src = New...Source(cfg, disp) (which returns no error), src.Start(),
\* whose error is only logged, and the append to activeSources.  The SMTP
\* Start always returns nil.
MainSource ==
    /\ main.pc = "sources"
    /\ main.i <= Len(SourceKinds)
    /\ LET kind == SourceKinds[main.i]
       IN  IF kind \notin main.enabled
           THEN main' = [main EXCEPT !.i = @ + 1]
           ELSE \E ok \in IF kind = "smtp" THEN {TRUE} ELSE BOOLEAN :
                  main' = [main EXCEPT
                             !.i = @ + 1,
                             !.src = kind,
                             !.started = IF ok THEN @ \cup {kind} ELSE @,
                             !.activeSources = Append(@, kind)]
    /\ UNCHANGED <<notMain, svars>>

\* After the loops: activeSources = append(activeSources, src); then
\* log.Fatal("No sources were started") when the list is empty.
MainAppend ==
    /\ main.pc = "sources"
    /\ main.i > Len(SourceKinds)
    /\ LET list == Append(main.activeSources, main.src)
       IN  main' = [main EXCEPT !.activeSources = list,
                                !.pc = IF Len(list) = 0 THEN "fatal" ELSE "wait"]
    /\ UNCHANGED <<notMain, svars>>

\* <-sigCh.
MainSignal ==
    /\ main.pc = "wait"
    /\ main' = [main EXCEPT !.pc = "stopping"]
    /\ UNCHANGED <<notMain, svars>>

\* One iteration of the Stop loop: src.Stop().  On the nil interface the
\* call panics; so does the close(s.done) of a polling source that was
\* stopped before.
MainStop ==
    /\ main.pc = "stopping"
    /\ main.k <= Len(main.activeSources)
    /\ LET src == main.activeSources[main.k]
           twice == src # "smtp" /\ \E j \in 1..Len(main.stopped) : main.stopped[j] = src
       IN  main' = [main EXCEPT
                      !.stopped = Append(@, src),
                      !.k = @ + 1,
                      !.pc = IF src = NilSource \/ twice THEN "panic" ELSE @]
    /\ UNCHANGED <<notMain, svars>>

\* The Stop loop is over; main returns.
MainReturn ==
    /\ main.pc = "stopping"
    /\ main.k > Len(main.activeSources)
    /\ main' = [main EXCEPT !.pc = "exit"]
    /\ UNCHANGED <<notMain, svars>>

\* SpecMain: main from its configuration to its return.
NextMain ==
    \/ MainConfig
    \/ MainSource
    \/ MainAppend
    \/ MainSignal
    \/ MainStop
    \/ MainReturn

SpecMain == Init /\ [][NextMain]_vars

\* SpecAny: main has registered its handlers and started one source of any
\* of the four kinds: a polling source, or the SMTP source with one session.
InitAny ==
    /\ InitMain
    /\ \E active \in {{}} \cup {{s} : s \in PollingSources} : InitSources(active)

\* No polling source was created: the source is the SMTP one, and a client
\* sends it a message.
SMTPOnlyData ==
    /\ \A s \in PollingSources : life[s].state = "none"
    /\ SMTPData

NextAny ==
    \/ NextSrc
    \/ SMTPOnlyData
    \/ SMTPReturn
    \/ SMTPNext
    \/ DispatchSend("smtp")
    \/ DispatchRecv("smtp")
    \/ TaskSnapshot("smtp")
    \/ TaskNext("smtp")
    \/ TaskHandleReturn("smtp")
    \/ TaskSend("smtp")

SpecAny == InitAny /\ [][NextAny]_vars

\* ------------------------------------------------------------ properties
Range(f) == {f[k] : k \in 1..Len(f)}

\* The jobs whose goroutine was started by run and has not yet returned from
\* dispatchToHandlers.
ChainsRunning == {c \in Callers : task[c].pc \in {"start", "chain", "handle"}}

\* C1: in every reachable state at most W handler chains are running, however
\* many callers are inside Dispatch; every started goroutine holds one of the
\* W worker slots until it has delivered its result.
ConcurrencyBound ==
    /\ Cardinality(ChainsRunning) <= W
    /\ workers <= W
    /\ workers = Cardinality({c \in Callers : task[c].pc # "none"}) + releasing

\* W chains are inside a Handle call while run holds a further job that waits
\* for a slot.
ConcurrencyBoundWitness ==
    /\ Cardinality({c \in Callers : task[c].pc = "handle"}) = W
    /\ runPc = "acquire"
    /\ ~SlotFree

\* The registered handlers that match a mail, in registration order.
Matching(mail) == SelectSeq(handlers, LAMBDA h : Match(h, mail))

\* C2: for each dispatched message the handlers invoked are the matching
\* handlers in registration order; none is invoked after a Handle returned an
\* error; once the chain has run, Dispatch returns that error, or nil when
\* every matching handler ran and none failed.
HandlerOrder ==
    \A c \in Callers :
        LET m == Matching(call[c].mail)
            n == Len(invoked[c])
            failed == {k \in 1..Len(results[c]) : results[c][k] # Nil}
        IN  /\ n <= Len(m)
            /\ \A k \in 1..n : invoked[c][k] = m[k]
            /\ Len(results[c]) <= n
            /\ n - 1 <= Len(results[c])
            /\ \A k \in failed : k = n
            /\ (call[c].pc = "ret" /\ chainRes[c] # <<>>) =>
                  IF failed # {}
                  THEN call[c].ret = results[c][n]
                       /\ call[c].ret = HandleErr(invoked[c][n], call[c].mail)
                  ELSE call[c].ret = Nil /\ n = Len(m)

\* With A, B, C registered and B failing on a mail with attachments: A and B
\* ran, C did not, and Dispatch returned B's error.
HandlerOrderWitness ==
    \E c \in DirectCallers :
        /\ call[c].pc = "ret"
        /\ handlers = <<"A", "B", "C">>
        /\ invoked[c] = <<"A", "B">>
        /\ call[c].ret = HandleErr("B", call[c].mail)

\* C10: on a dispatcher that is not closed, a Dispatch call that has returned
\* had its job taken by a goroutine that ran dispatchToHandlers to the end and
\* delivered the result, and the value returned is the result of that chain:
\* an error names the caller's own mail.
DispatchSynchronous ==
    \A c \in Callers :
        (call[c].pc = "ret" /\ ~done) =>
            /\ chainRes[c] # <<>>
            /\ task[c].pc = "none"
            /\ call[c].ret = chainRes[c][1]
            /\ call[c].ret # Nil => call[c].ret.mail = call[c].mail.id

\* A call returned an error while another caller's job finished with a
\* different result that is still in that job's channel.
DispatchSynchronousWitness ==
    \E c, d \in DirectCallers :
        /\ c # d
        /\ ~done
        /\ call[c].pc = "ret"
        /\ call[c].ret # Nil
        /\ call[d].pc = "wait"
        /\ jobErr[d] = <<Nil>>

\* The item of the Dispatch call a source is in: the last one examined.
Current == trace[Len(trace)].id

\* C3: an item whose first Dispatch succeeded has been dispatched exactly once
\* since it was last evicted or the validity changed, however often later
\* ticks presented it.
Idempotence == \A x \in Items : firstOK[x] => calls[x] = 1

\* A later tick was presented an item whose first Dispatch had succeeded, and
\* skipped it.
IdempotenceWitness ==
    \E k \in 1..Len(trace) :
        /\ trace[k].verdict = "processed"
        /\ firstOK[trace[k].id]
        /\ calls[trace[k].id] = 1

\* C4 as stated: within the retention window and one validity generation no
\* handler's Handle is invoked a second time for an item, retried ticks
\* included.
FanOutOncePerItem ==
    \A s \in PollingSources :
        pc[s] = "dispatch" => Range(invoked[s]) \cap ran[Current] = {}

\* C4, amended: a Dispatch call invokes each handler at most once; a handler
\* is invoked again for an item only when every earlier Dispatch for it
\* failed, so that the item was left unmarked and is retried.
FanOutOncePerSuccess ==
    \A s \in PollingSources :
        pc[s] = "dispatch" =>
            /\ \A i, j \in 1..Len(invoked[s]) : i # j => invoked[s][i] # invoked[s][j]
            /\ ~firstOK[Current]
            /\ ~IsProcessed(Processed(s), Current)
            /\ calls[Current] = 1 => ran[Current] = {}

\* The retry of an item whose first Dispatch failed after a handler had run.
FanOutWitness ==
    \E s \in PollingSources :
        /\ pc[s] = "dispatch"
        /\ calls[Current] = 2
        /\ ~firstOK[Current]
        /\ Range(invoked[s]) \cap ran[Current] # {}

\* The items the current tick marked, in order.
MarkedInTick == SelectSeq(trace, LAMBDA e : e.verdict = "ok")

\* C5: a tick that finds a validity other than the known non-zero one stores
\* the new one, empties the dedup map and zeroes the watermark before it
\* searches, and searches without a lower bound; what the map and the
\* watermark hold afterwards comes from this tick's own marks.
ValidityReset ==
    (pc["imap"] \in {"loop", "dispatch", "ret"} /\ mbox # NoMbox
       /\ ValidityChanged(atStart.uidValidity, mbox.UidValidity)) =>
        /\ uidValidity = mbox.UidValidity
        /\ criteria = 0
        /\ DOMAIN processedUIDs \subseteq {e.id : e \in Range(MarkedInTick)}
        /\ lastUID = IF MarkedInTick = <<>> THEN 0
                     ELSE MarkedInTick[Len(MarkedInTick)].id

\* After a tick had marked a message and moved the watermark, a tick found
\* another validity and is about to examine the first message fetched.
ValidityResetWitness ==
    /\ pc["imap"] = "loop"
    /\ ValidityChanged(atStart.uidValidity, mbox.UidValidity)
    /\ atStart.lastUID > 0
    /\ trace = <<>>
    /\ messages # <<>>
    /\ lastUID = 0
    /\ processedUIDs = EmptyMap

\* C6: from watermark 0 and an empty dedup map, with UIDs 1..n in the mailbox
\* and every message parsed and dispatched without error, the tick dispatches
\* 1..n in ascending order and leaves the watermark at n; and a tick that
\* starts with the watermark at the highest UID and every UID marked dispatches
\* nothing.
IMAPTickScenario ==
    /\ (/\ pc["imap"] = "ret"
        /\ tickRet = "nil"
        /\ criteria = 0
        /\ mbox.uids # {}
        /\ mbox.uids = 1..Cardinality(mbox.uids)
        /\ DOMAIN processedUIDs = mbox.uids
        /\ Len(trace) = Cardinality(mbox.uids)
        /\ \A k \in 1..Len(trace) : trace[k].verdict = "ok")
       => /\ \A k \in 1..Len(trace) : trace[k].id = k
          /\ lastUID = Cardinality(mbox.uids)
    /\ (/\ pc["imap"] \in {"loop", "dispatch", "ret"}
        /\ mbox.uids # {}
        /\ criteria = Max(mbox.uids) + 1
        /\ \A k \in 1..Len(trace) : trace[k].marked)
       => \A k \in 1..Len(trace) : trace[k].verdict = "processed"

\* C7 as stated: a POP3 tick that has ended examined every enumerated pair,
\* dispatched each one whose id was not in the dedup map and no other.
POP3TickScenario ==
    pc["pop3"] = "ret" =>
        /\ Len(trace) = Len(uidlList)
        /\ \A k \in 1..Len(trace) :
              /\ trace[k].id = uidlList[k].ID
              /\ trace[k].marked => trace[k].verdict = "processed"
              /\ ~trace[k].marked => trace[k].verdict \in {"ok", "dispatchErr"}

\* C7, amended: a POP3 tick goes through the enumerated pairs in enumeration
\* order; a pair whose id is in the dedup map when it is reached is skipped,
\* whatever its number; a pair whose id is not is dispatched when its
\* retrieval and parse succeed; a failed read or Dispatch ends the tick; the id
\* is marked after Dispatch returned nil; a tick that returns nil reached
\* every pair.
POP3TickOrder ==
    pc["pop3"] # "off" =>
        /\ Len(trace) <= Len(uidlList)
        /\ \A k \in 1..Len(trace) :
              /\ trace[k].id = uidlList[k].ID
              /\ trace[k].marked <=> trace[k].verdict = "processed"
              /\ trace[k].verdict \in {"dispatch", "dispatchErr", "readErr"}
                    => k = Len(trace)
              /\ trace[k].verdict = "ok"
                    => trace[k].id \in DOMAIN processedMsgs \cup evicted
        /\ pc["pop3"] \in {"loop", "dispatch"} => pop3I \in 1..(Len(uidlList) + 1)
        /\ pc["pop3"] = "loop" => Len(trace) = pop3I - 1
        /\ (pc["pop3"] = "ret" /\ tickRet = "nil") => Len(trace) = Len(uidlList)
        /\ (pc["pop3"] = "ret" /\ tickRet = "err" /\ trace # <<>>)
              => trace[Len(trace)].verdict \in {"dispatchErr", "readErr"}

\* A tick whose enumeration held an id marked by an earlier tick, now under
\* number 1, and a new id: the first was skipped, the second dispatched and
\* marked.
POP3TickWitness ==
    /\ pc["pop3"] = "ret"
    /\ tickRet = "nil"
    /\ Len(uidlList) = 2
    /\ uidlList[1].ID = 2
    /\ trace[1].verdict = "processed"
    /\ trace[2].verdict = "ok"
    /\ {1, 2} \subseteq DOMAIN processedMsgs

\* C8: a MailHog tick goes through the response from its last item to its
\* first; an item is skipped exactly when its id is in the dedup map, whatever
\* lastID holds; a tick that was not ended by a Dispatch error reached every
\* item of the response.
RESTOrder ==
    pc["mailhog"] # "off" =>
        /\ Len(trace) <= Len(items)
        /\ \A k \in 1..Len(trace) :
              /\ trace[k].id = items[Len(items) + 1 - k]
              /\ trace[k].marked <=> trace[k].verdict = "processed"
              /\ ~trace[k].marked => trace[k].verdict \in
                    {"parseErr", "dispatch", "dispatchErr", "ok"}
        /\ (pc["mailhog"] = "ret" /\ tickRet = "nil") => Len(trace) = Len(items)

\* The response [2, 1], none marked, was dispatched as 1, 2 although lastID
\* already held one of the ids.
RESTOrderWitness ==
    /\ pc["mailhog"] = "ret"
    /\ items = <<2, 1>>
    /\ Len(trace) = 2
    /\ trace[1].id = 1 /\ trace[1].verdict = "ok" /\ ~trace[1].marked
    /\ trace[2].id = 2 /\ trace[2].verdict = "ok" /\ ~trace[2].marked
    /\ evicted = {}
    /\ now > Retention

\* C9: while a source runs, an entry marked at time t is in its dedup map at
\* no time later than t + Retention + SweepPeriod; an item a sweep removed is
\* not in the map until it is marked again, and an item that is not in the map
\* when a tick reaches it is never skipped as processed.
Eviction ==
    \A s \in PollingSources :
        (sweeper[s] /\ ~srcDone[s]) =>
            /\ \A x \in DOMAIN Processed(s) :
                  /\ Processed(s)[x] <= now
                  /\ now <= Processed(s)[x] + Retention + SweepPeriod
            /\ evicted \cap DOMAIN Processed(s) = {}
            /\ \A k \in 1..Len(trace) :
                  ~trace[k].marked => trace[k].verdict # "processed"

\* An item that was marked and then swept is presented again and is in a
\* Dispatch call.
EvictionWitness ==
    \E s \in PollingSources :
        /\ pc[s] = "dispatch"
        /\ Current \in evicted
        /\ now > Retention + SweepPeriod

\* The callers whose job is in the buffer of mailCh.
Queued == Range(mailCh)

\* C11: a Dispatch call that started after Close returned has its job in no
\* queue and no goroutine, no handler was called with its mail, and when it
\* has returned it returned nil.
LateDispatchDropped ==
    \A c \in CloseCallers :
        phase[c].kind = "late" =>
            /\ c \notin Queued
            /\ runJob # c
            /\ task[c].pc = "none"
            /\ invoked[c] = <<>>
            /\ call[c].pc = "ret" => call[c].ret = Nil

\* C12: a Dispatch call that was waiting to enqueue its job, or whose job was
\* in the queue and not yet taken by run, when Close was called, eventually
\* returns nil.
PendingReturnsNil ==
    \A c \in CloseCallers :
        (phase[c].kind = "pending") ~> (call[c].pc = "ret" /\ call[c].ret = Nil)

\* The job of caller c had its goroutine started when Close was called.
InFlight(c) == phase[c].kind = "inflight"

\* C13: a job whose goroutine was started when Close was called keeps its
\* caller blocked until the chain is over; the call eventually returns, and
\* what it returns is the chain's result: nil after every matching handler
\* ran, or the error of the last handler invoked, those invoked before Close
\* included; by then the goroutine is gone and the slot count holds only
\* running goroutines and pending releases.
InFlightCompletes ==
    \A c \in CloseCallers :
        /\ [](InFlight(c) => call[c].pc \in {"wait", "ret"})
        /\ []((InFlight(c) /\ call[c].pc = "ret") =>
                /\ task[c].pc = "none"
                /\ workers = Cardinality({d \in Callers : task[d].pc # "none"}) + releasing
                /\ phase[c].n <= Len(invoked[c])
                /\ Len(results[c]) = Len(invoked[c])
                /\ IF call[c].ret = Nil
                   THEN /\ invoked[c] = Matching(call[c].mail)
                        /\ \A k \in 1..Len(results[c]) : results[c][k] = Nil
                   ELSE call[c].ret = results[c][Len(results[c])])
        /\ InFlight(c) ~> (InFlight(c) /\ call[c].pc = "ret")

\* Close came before the first Handle call of a job whose goroutine was
\* started; all three handlers ran after it, the call returned nil and every
\* slot is free.
InFlightCompletesWitness ==
    \E c \in CloseCallers :
        /\ InFlight(c)
        /\ phase[c].n = 0
        /\ call[c].pc = "ret"
        /\ call[c].ret = Nil
        /\ invoked[c] = <<"A", "B", "C">>
        /\ workers = 0

\* The places in an argument list of AddHandlers that hold a handler neither
\* registered before the call nor given earlier in the same call.
FirstNew(before, args) ==
    {k \in 1..Len(args) :
        /\ args[k] \notin Range(before)
        /\ \A j \in 1..(k - 1) : args[j] # args[k]}

\* C14: no handler is ever in the list twice, and the map holds exactly the
\* handlers of the list; after AddHandlers the list is the list before the
\* call followed by the arguments that were not registered, each once, in
\* argument order, and a call with only registered handlers changes nothing.
AddKeepsOrder ==
    /\ \A i, j \in 1..Len(handlers) : i # j => handlers[i] # handlers[j]
    /\ handlersMap = Range(handlers)
    /\ lastOp.op = "add" =>
          LET new == FirstNew(lastOp.before, lastOp.args)
              n == Len(lastOp.before)
          IN  /\ Len(handlers) = n + Cardinality(new)
              /\ SubSeq(handlers, 1, n) = lastOp.before
              /\ \A k \in new :
                    handlers[n + Cardinality({j \in new : j <= k})] = lastOp.args[k]
              /\ Range(lastOp.args) \subseteq Range(lastOp.before) =>
                    handlers = lastOp.before

\* AddHandlers(A, A) on a dispatcher holding C alone left C first and added A
\* once.
AddKeepsOrderWitness ==
    /\ lastOp.op = "add"
    /\ lastOp.before = <<"C">>
    /\ lastOp.args = <<"A", "A">>
    /\ handlers = <<"C", "A">>

\* C15: after RemoveHandlers the list is the list before the call without
\* the given handlers, the others in their order, and unchanged when none of
\* them was registered; the map holds exactly the listed handlers, so that a
\* removed handler given to AddHandlers again is registered after every
\* handler that was in the list.
RemoveKeepsOrder ==
    /\ handlersMap = Range(handlers)
    /\ lastOp.op = "remove" =>
          /\ handlers = SelectSeq(lastOp.before,
                                  LAMBDA h : h \notin Range(lastOp.args))
          /\ Range(lastOp.args) \cap Range(lastOp.before) = {} =>
                handlers = lastOp.before
    /\ lastOp.op = "add" =>
          \A h \in (lastOp.removed \cap Range(lastOp.args)) \ Range(lastOp.before) :
              \E k \in (Len(lastOp.before) + 1)..Len(handlers) : handlers[k] = h

\* A was registered and removed, and AddHandlers(A) then put it behind B
\* and C.
RemoveKeepsOrderWitness ==
    /\ lastOp.op = "add"
    /\ "A" \in lastOp.removed
    /\ lastOp.args = <<"A">>
    /\ lastOp.before = <<"B", "C">>
    /\ handlers = <<"B", "C", "A">>

\* C16: every handler whose Handle was called for a mail matches that mail;
\* a chain that is at its i-th handler with no error so far has invoked every
\* matching handler before the i-th, whatever non-matching handlers lie in
\* between, and a chain that ended with nil has invoked every matching
\* handler of its snapshot.
MatchGating ==
    \A c \in DirectCallers :
        LET mail == call[c].mail
            t == task[c]
            matching(hs) == SelectSeq(hs, LAMBDA h : Match(h, mail))
        IN  /\ \A k \in 1..Len(invoked[c]) : Match(invoked[c][k], mail)
            /\ t.pc = "chain" => invoked[c] = matching(SubSeq(t.hs, 1, t.i - 1))
            /\ t.pc = "handle" => invoked[c] = matching(SubSeq(t.hs, 1, t.i))
            /\ (t.pc = "send" /\ t.err = Nil) => invoked[c] = matching(t.hs)

\* A mail without attachments went through A, B, C: B's Match was false, A
\* and C handled it and Dispatch returned nil.
MatchGatingWitness ==
    \E c \in DirectCallers :
        /\ ~call[c].mail.att
        /\ call[c].pc = "ret"
        /\ call[c].ret = Nil
        /\ handlers = <<"A", "B", "C">>
        /\ invoked[c] = <<"A", "C">>

\* Item x, still on the server, is presented by the next tick of source s:
\* UIDL and the MailHog API list every item; the IMAP search lists the UIDs
\* above the watermark.
PresentedAgain(s, x) ==
    s = "imap" =>
        \A uids \in SearchResults(Criteria(lastUID), mbox.uids) : x \in uids

\* The items of the batch the tick of source s did not reach, with i the
\* index of the item it stopped at.
Unreached(s) ==
    IF s = "imap" THEN {messages[k] : k \in (imapI + 1)..Len(messages)}
    ELSE IF s = "pop3" THEN {uidlList[k].ID : k \in (pop3I + 1)..Len(uidlList)}
    ELSE {items[k] : k \in 1..(mhI - 1)}

\* C17: a tick that ended because Dispatch returned an error reports the
\* error, dispatched nothing after it, left the failed item unmarked and
\* marked no unreached item; the next tick presents the failed item and the
\* unmarked unreached ones again, so that they are dispatched again.
DispatchFailureRetried ==
    \A s \in PollingSources :
        (pc[s] = "ret" /\ trace # <<>>
           /\ trace[Len(trace)].verdict = "dispatchErr") =>
            /\ tickRet = "err"
            /\ \A k \in 1..(Len(trace) - 1) : trace[k].verdict # "dispatchErr"
            /\ Current \notin DOMAIN Processed(s)
            /\ PresentedAgain(s, Current)
            /\ \A x \in Unreached(s) \ DOMAIN Processed(s) : PresentedAgain(s, x)

\* The number of items in the batch of the current tick of source s.
BatchLen(s) ==
    IF s = "imap" THEN Len(messages)
    ELSE IF s = "pop3" THEN Len(uidlList) ELSE Len(items)

\* C18: at the end of a tick every item whose parsing failed is unmarked and
\* is presented again by the next tick while it is on the server; a parse
\* failure does not end the tick: when it was the last thing the tick did,
\* the whole batch had been gone through.
ParseFailureRetried ==
    \A s \in PollingSources :
        pc[s] = "ret" =>
            /\ \A k \in 1..Len(trace) :
                  trace[k].verdict = "parseErr" =>
                      /\ trace[k].id \notin DOMAIN Processed(s)
                      /\ PresentedAgain(s, trace[k].id)
            /\ (trace # <<>> /\ trace[Len(trace)].verdict = "parseErr") =>
                  Len(trace) = BatchLen(s)

\* C19: a Data call that is over and whose message was read and parsed has
\* called Dispatch and returned the value Dispatch returned, the result of
\* the handler chain; a Data call that returned the parse error has not
\* called Dispatch.
DataTiedToDispatch ==
    /\ (smtp.pc \in {"ret", "panic"} /\ smtp.msg.parsed) =>
          /\ smtp.pc = "ret"
          /\ smtp.dispatched
          /\ smtp.ret = call["smtp"].ret
          /\ chainRes["smtp"] = <<smtp.ret>>
    /\ (smtp.pc = "ret" /\ smtp.ret = ParseErr) =>
          /\ ~smtp.dispatched
          /\ call["smtp"].pc = "idle"

\* C20: every message ParseMail returned is given to Dispatch, with the
\* Message-ID value as its id when there is one and otherwise the id made of
\* the date, the first From address and the first To address.
MessageIDRule ==
    smtp.msg.parsed =>
        /\ smtp.dispatched
        /\ call["smtp"].mail.id =
              IF smtp.msg.MessageID # <<>> THEN smtp.msg.MessageID
              ELSE Sprintf3(smtp.msg.Date, <<smtp.msg.From[1]>>, <<smtp.msg.To[1]>>)

\* C24: the mail of every Dispatch call a source is in carries the source's
\* configured name as its source tag.
SourceTag ==
    \A s \in PollingSources \cup {"smtp"} :
        call[s].pc # "idle" => call[s].mail.source = Name(s)

\* C27: while the validity stays the same no step lowers the IMAP watermark,
\* and a step that marks a UID leaves the watermark at the highest UID of
\* the dedup map and the old watermark.
WatermarkRunningMax ==
    [][uidValidity' = uidValidity =>
          /\ lastUID' >= lastUID
          /\ DOMAIN processedUIDs' \ DOMAIN processedUIDs # {} =>
                lastUID' = Max(DOMAIN processedUIDs' \cup {lastUID})]_vars

\* The verdicts of an item that was not dispatched successfully.
Failures == {"dispatchErr", "parseErr", "retrErr", "readErr", "noBody"}

\* Source s is at the return of a Dispatch call for item x that gave nil.
DispatchedOK(s, x) ==
    /\ pc[s] = "dispatch"
    /\ call[s].pc = "ret"
    /\ call[s].ret = Nil
    /\ Current = x

\* C28: a step puts a key into a dedup map, or moves the IMAP watermark to a
\* UID, only when the source is at the return of a Dispatch call for that
\* item that gave nil; an item of the current tick that was unmarked when
\* the tick reached it and whose retrieval, parsing or Dispatch failed is
\* not in the map.
MarkAfterSuccess ==
    /\ [](\A s \in PollingSources : \A k \in 1..Len(trace) :
            (pc[s] # "off" /\ trace[k].verdict \in Failures /\ ~trace[k].marked) =>
                trace[k].id \notin DOMAIN Processed(s))
    /\ [][/\ \A x \in DOMAIN processedUIDs' \ DOMAIN processedUIDs :
               DispatchedOK("imap", x)
          /\ \A x \in DOMAIN processedMsgs' \ DOMAIN processedMsgs :
               DispatchedOK("pop3", x)
          /\ \A x \in DOMAIN processedIDs' \ DOMAIN processedIDs :
               DispatchedOK("mailhog", x)
          /\ lastUID' \notin {lastUID, 0} => DispatchedOK("imap", lastUID')]_vars

\* A tick dispatched one item with success and marked it, then ended on the
\* Dispatch error of the next item, which is not in the map.
MarkAfterSuccessWitness ==
    \E s \in PollingSources :
        /\ pc[s] = "ret"
        /\ Len(trace) = 2
        /\ trace[1].verdict = "ok"
        /\ trace[1].id \in DOMAIN Processed(s)
        /\ trace[2].verdict = "dispatchErr"
        /\ trace[2].id \notin DOMAIN Processed(s)

\* The number of jobs of caller c the dispatcher holds: in the queue, in the
\* hands of run, or in a goroutine that has not delivered its result.
JobsOf(c) ==
    Cardinality({k \in 1..Len(mailCh) : mailCh[k] = c})
        + (IF runJob = c THEN 1 ELSE 0)
        + (IF task[c].pc # "none" THEN 1 ELSE 0)

\* C25: the dispatcher never holds two jobs of one polling source; it holds
\* a job of the source only while the source is blocked in the Dispatch call
\* for the item its tick is at, and the source is at the next item, or
\* between ticks, only when no Dispatch call of it is open.
SequentialDispatch ==
    \A s \in PollingSources :
        /\ JobsOf(s) <= 1
        /\ JobsOf(s) = 1 => pc[s] = "dispatch" /\ call[s].pc = "wait"
        /\ pc[s] = "dispatch" <=> call[s].pc # "idle"
        /\ pc[s] = "dispatch" =>
              /\ trace # <<>>
              /\ trace[Len(trace)].verdict = "dispatch"
              /\ call[s].mail.id[Len(call[s].mail.id)] = trace[Len(trace)].id
              /\ \A k \in 1..(Len(trace) - 1) : trace[k].verdict # "dispatch"

\* The handler chain runs for the second item of a tick, after the Dispatch
\* of the first returned nil.
SequentialDispatchWitness ==
    \E s \in PollingSources :
        /\ pc[s] = "dispatch"
        /\ task[s].pc = "handle"
        /\ Len(trace) = 2
        /\ trace[1].verdict = "ok"

\* The step in which a tick of source s ends on a failed network or protocol
\* step (not on a Dispatch error).
FetchErrorStep(s) ==
    /\ pc[s] \in {"idle", "loop"}
    /\ pc'[s] = "ret"
    /\ tickRet' = "err"

\* A tick of source s has ended on a failed network or protocol step.
EndedOnFetchError(s) ==
    /\ pc[s] = "ret"
    /\ tickRet = "err"
    /\ trace # <<>> => trace[Len(trace)].verdict # "dispatchErr"

\* C30 as stated: at the end of a tick that a failed network or protocol
\* step ended, the tick has marked nothing, and a validity known at its
\* start and the watermark are the ones of its start.
FetchErrorStateUnchanged ==
    \A s \in PollingSources :
        EndedOnFetchError(s) =>
            /\ MarkedInTick = <<>>
            /\ (s = "imap" /\ mbox # NoMbox) =>
                  /\ atStart.uidValidity # 0 => uidValidity = atStart.uidValidity
                  /\ lastUID = atStart.lastUID

\* C30, amended: a failed read of a message is the last thing its tick does,
\* and the step on which a tick ends with a failed network or protocol step
\* changes no dedup map and no watermark, and the validity only by what the
\* validity test after a successful Select of that same step does; between
\* ticks the source holds nothing of the ended tick, so the next one starts
\* afresh.
FetchErrorKeepsState ==
    /\ [](\A k \in 1..Len(trace) :
            trace[k].verdict = "readErr" =>
                k = Len(trace) /\ pc["pop3"] = "ret" /\ tickRet = "err")
    /\ [](\A s \in PollingSources :
            pc[s] = "idle" =>
                /\ tickRet = "nil" /\ trace = <<>>
                /\ messages = <<>> /\ uidlList = <<>> /\ items = <<>>)
    /\ [][\A s \in PollingSources :
            FetchErrorStep(s) =>
                /\ processedMsgs' = processedMsgs
                /\ processedIDs' = processedIDs
                /\ lastID' = lastID
                /\ IF s = "imap" /\ pc[s] = "idle" /\ mbox' # NoMbox
                   THEN /\ uidValidity' = mbox'.UidValidity
                        /\ IF uidValidity \notin {0, mbox'.UidValidity}
                           THEN processedUIDs' = EmptyMap /\ lastUID' = 0
                           ELSE UNCHANGED <<processedUIDs, lastUID>>
                   ELSE UNCHANGED <<uidValidity, processedUIDs, lastUID>>]_vars

\* A POP3 tick marked its first message after a successful Dispatch and
\* ended on the failed read of the second; the first is still marked.
FetchErrorKeepsStateWitness ==
    /\ EndedOnFetchError("pop3")
    /\ Len(trace) = 2
    /\ trace[1].verdict = "ok"
    /\ trace[1].id \in DOMAIN processedMsgs
    /\ trace[2].verdict = "readErr"
    /\ trace[2].id \notin DOMAIN processedMsgs

\* C26: the queue never holds more than Q jobs, run holds a job exactly
\* while it waits for a slot, and at most W goroutines exist; the job of a
\* call that waits for its result is in the queue, with run or in a
\* goroutine, or its result is in the job's channel; a call that has
\* returned had its mail run through the handlers; and every call that has
\* started, whatever the queue and the slots were like, eventually returns.
Backpressure ==
    /\ [](Len(mailCh) <= Q)
    /\ [](runJob # NoJob <=> runPc = "acquire")
    /\ [](Cardinality({c \in Callers : task[c].pc # "none"}) <= W)
    /\ \A c \in DirectCallers :
          /\ [](call[c].pc = "wait" => (JobsOf(c) = 1 \/ jobErr[c] # <<>>))
          /\ [](call[c].pc = "ret" =>
                  /\ invoked[c] # <<>>
                  /\ call[c].ret = Nil => invoked[c] = Matching(call[c].mail))
          /\ (call[c].pc \in {"select", "wait"}) ~> (call[c].pc = "ret")

\* A caller is at the select of Dispatch while the queue is full and run
\* holds a third caller's job: the send cannot proceed.
BackpressureWitness ==
    \E c \in DirectCallers :
        /\ call[c].pc = "select"
        /\ Len(mailCh) = Q
        /\ ~QueueHasRoom
        /\ runPc = "acquire"
        /\ runJob \notin {c, NoJob}

\* C22: a source whose configuration lacks a required field never gets past
\* Start: Start, once called, has returned an error, no connection was
\* attempted, the monitor goroutine does not exist, and the source has
\* examined no item and called Dispatch for none.
StartFailsFast ==
    \A s \in PollingSources :
        (life[s].state # "none" /\ Required(s) \ life[s].cfg # {}) =>
            /\ life[s].state \in {"new", "failed"}
            /\ ~life[s].dialed
            /\ pc[s] = "off"
            /\ call[s].pc = "idle"
            /\ trace = <<>>
            /\ Processed(s) = EmptyMap

\* Start of an IMAP source without a password has returned its error.
StartFailsFastWitness ==
    /\ life["imap"].state = "failed"
    /\ life["imap"].cfg = {"server", "username"}
    /\ ~life["imap"].dialed

\* C23: once Stop has returned, the monitor goroutine of the source goes
\* from its select into no further tick, and the source begins no further
\* Dispatch call.
StopEndsTicks ==
    [][\A s \in PollingSources :
          srcDone[s] =>
              /\ ~(pc[s] = "idle" /\ pc'[s] \notin {"idle", "exit"})
              /\ ~(call[s].pc = "idle" /\ call'[s].pc # "idle")]_vars

\* C29: every item in a dedup map had its mail run through the handler
\* chain: handler A, which matches every mail, ran for it.
MarkedImpliesHandled ==
    \A s \in PollingSources :
        \A x \in DOMAIN Processed(s) : "A" \in ran[x]

Kept(map, n) == {x \in DOMAIN map : n - map[x] <= Retention}

\* The step is a sweep of source s: its sweep goroutine takes the tick.
SweepStep(s) == sweeper[s] /\ sweepDue[s] /\ sweeper'[s] /\ ~sweepDue'[s]

\* C32: a sweep leaves in the dedup map exactly the entries that were in it
\* and are no older than the retention, each with its mark time, and leaves
\* the watermark, the validity and the other sources' maps alone.
SweepExact ==
    [][\A s \in PollingSources :
          SweepStep(s) =>
              /\ DOMAIN Processed(s)' = Kept(Processed(s), now)
              /\ \A x \in Kept(Processed(s), now) : Processed(s)'[x] = Processed(s)[x]
              /\ \A r \in PollingSources \ {s} : Processed(r)' = Processed(r)
              /\ UNCHANGED <<lastUID, uidValidity, lastID, now>>]_vars

\* A sweep has removed the entry of item 1 and kept that of item 2, which
\* was marked exactly the retention ago.
SweepExactWitness ==
    \E s \in PollingSources :
        /\ sweeper[s] /\ ~sweepDue[s]
        /\ evicted = {1}
        /\ DOMAIN Processed(s) = {2}
        /\ now - Processed(s)[2] = Retention

\* The step is a markProcessed(x) call.
IsMark(x) ==
    /\ now' = now
    /\ sweepDue' = sweepDue
    /\ trace' # <<>>
    /\ trace'[1].id = x
    /\ trace'[1].verdict \in {"mark", "remark"}

\* C33 as stated: a markProcessed(x) call that follows a markProcessed(x)
\* call leaves the dedup map, mark times included, and the IMAP watermark as
\* they are.
MarkTwiceSameRecord ==
    [][\A s \in PollingSources : \A x \in Items :
          (pc[s] = "idle" /\ IsMark(x) /\ trace'[1].verdict = "remark") =>
              /\ Processed(s)' = Processed(s)
              /\ lastUID' = lastUID]_vars

\* C33, amended: markProcessed(x) puts x into the map with the current time
\* and leaves the other entries alone; called again for a key that the call
\* before it marked, it leaves membership and the IMAP watermark as they
\* are, and the mark time of x becomes the time of this call, never earlier
\* than the one recorded.
MarkTwiceSameMembership ==
    [][\A s \in PollingSources : \A x \in Items :
          (pc[s] = "idle" /\ IsMark(x)) =>
              /\ DOMAIN Processed(s)' = DOMAIN Processed(s) \cup {x}
              /\ Processed(s)'[x] = now
              /\ \A y \in DOMAIN Processed(s) \ {x} : Processed(s)'[y] = Processed(s)[y]
              /\ s = "imap" => lastUID' = x
              /\ trace'[1].verdict = "remark" =>
                    /\ DOMAIN Processed(s)' = DOMAIN Processed(s)
                    /\ lastUID' = lastUID
                    /\ Processed(s)'[x] >= Processed(s)[x]]_vars

\* markProcessed was called a second time for item 1, one period or more
\* after the call that had marked it: the entry now holds the later time.
MarkTwiceWitness ==
    \E s \in PollingSources :
        /\ pc[s] = "idle"
        /\ trace = <<[id |-> 1, marked |-> TRUE, verdict |-> "remark"]>>
        /\ Processed(s)[1] = now
        /\ now > 0
        /\ 2 \notin DOMAIN Processed(s)

\* The sweep of source s has deleted an entry and has an expired one still
\* to delete.
PartlySwept(s) ==
    /\ smu[s].holder = "sweep"
    /\ smu[s].gone # {}
    /\ \E x \in smu[s].todo : Expired(Processed(s)[x], smu[s].at)

\* The step is an isProcessed or markProcessed call of source s.
CallStep(s) ==
    /\ pc[s] = "idle"
    /\ smu' = smu /\ now' = now /\ sweepDue' = sweepDue
    /\ <<trace, Processed(s)>>' # <<trace, Processed(s)>>

\* C31: a sweep deletes only entries that were in the map when it started
\* and had expired by then, so nothing marked after its start; while a sweep
\* is between its first and its last entry no isProcessed and no
\* markProcessed call takes effect, and no entry is written.
MarkVersusSweep ==
    /\ [](\A s \in PollingSources :
            smu[s].holder = "sweep" =>
                /\ \A x \in DOMAIN Processed(s) : Processed(s)[x] <= smu[s].at
                /\ smu[s].gone \cap DOMAIN Processed(s) = {})
    /\ [][\A s \in PollingSources :
            /\ \A x \in DOMAIN Processed(s) \ DOMAIN Processed(s)' :
                  /\ x \in smu[s].todo
                  /\ Expired(Processed(s)[x], smu[s].at)
            /\ CallStep(s) => smu[s].holder = "free" /\ ~PartlySwept(s)]_vars

\* A sweep has deleted the expired entry of one item and has the other,
\* expired too, still before it: a membership check now would see a partly
\* swept map.
MarkVersusSweepWitness ==
    \E s \in PollingSources :
        /\ PartlySwept(s)
        /\ Cardinality(DOMAIN Processed(s)) = 1
        /\ pc[s] = "idle"

\* C39: main never calls Stop on a nil source and never twice on one source;
\* when it returns it has called Stop on each source it created and
\* started; and with no enabled source it reports that no sources were
\* started instead of waiting for the signal.
StopEachOnce ==
    /\ NilSource \notin Range(main.stopped)
    /\ \A a, b \in 1..Len(main.stopped) :
          main.stopped[a] = main.stopped[b] => a = b
    /\ main.pc = "exit" => main.started \subseteq Range(main.stopped)
    /\ main.pc \in {"wait", "stopping", "exit", "panic"} => main.enabled # {}
    /\ main.pc # "panic"

\* A data line without its stuffing dot.
Unstuffed(line) == IF line[1] = "." THEN Tail(line) ELSE line

\* The lines sent before the first lone dot.
BeforeDot(w) ==
    LET dots == {j \in 1..Len(w) : w[j] = <<".">>}
    IN  IF dots = {} THEN w
        ELSE SubSeq(w, 1, (CHOOSE j \in dots : \A k \in dots : j <= k) - 1)

\* C38: the body handed to the parser is the lines sent before the first
\* lone dot, each without its stuffing dot.
RetrUnstuffs ==
    retr.pc = "parse" =>
        retr.messageData =
            [j \in 1..Len(BeforeDot(retr.sent)) |-> Unstuffed(BeforeDot(retr.sent)[j])]

\* C35: the job of a Dispatch call that waits for its result is in exactly
\* one place: in the queue once, held by run, with its one goroutine, or
\* finished with its one result in the job's channel; a call that does not
\* wait has no job and no result left.  Within the job no handler is
\* invoked twice and at most one Handle call is open, and the channel is
\* empty when the goroutine sends the result, so the send never blocks.
OneChainPerJob ==
    \A c \in Callers :
        /\ call[c].pc = "wait" => JobsOf(c) + Len(jobErr[c]) = 1
        /\ call[c].pc # "wait" => JobsOf(c) = 0 /\ jobErr[c] = <<>>
        /\ task[c].pc = "send" => jobErr[ErrChan(c)] = <<>>
        /\ \A a, b \in 1..Len(invoked[c]) : invoked[c][a] = invoked[c][b] => a = b
        /\ Len(invoked[c]) =
              Len(results[c]) + (IF task[c].pc = "handle" THEN 1 ELSE 0)

\* Two jobs are inside a handler at once, each in a chain of its own, while
\* a third job has run two handlers and left its one result in its channel.
OneChainPerJobWitness ==
    \E c, d, e \in DirectCallers :
        /\ c # d /\ task[c].pc = "handle" /\ task[d].pc = "handle"
        /\ e \notin {c, d}
        /\ call[e].pc = "wait" /\ Len(jobErr[e]) = 1 /\ Len(invoked[e]) >= 2

\* No caller of SpecMany is inside Dispatch.
AllReturned == \A c \in ManyCallers : call[c].pc \in {"idle", "ret"}

\* C37: with more callers than queue, run and slots take in, on the open
\* dispatcher no caller stays inside Dispatch for ever: again and again it
\* is outside, and the only way out is the return.  Every slot taken is
\* held by a live goroutine or by one that has sent its result and can
\* release it without blocking, and the slots do not stay taken once no
\* call is open.
DispatchCompletes ==
    /\ \A c \in ManyCallers : []<>(call[c].pc \in {"idle", "ret"})
    /\ [][\A c \in ManyCallers :
            (call[c].pc \in {"select", "wait"} /\ call[c].pc' \notin {"select", "wait"})
                => call[c].pc' = "ret"]_vars
    /\ [](workers = Cardinality({c \in Callers : task[c].pc # "none"}) + releasing)
    /\ []<>(workers = 0 \/ ~AllReturned)

\* Every caller is inside Dispatch at once: two jobs are with their
\* goroutines, run holds a third and waits for a slot, the fourth is in the
\* queue, which is full.
DispatchCompletesWitness ==
    /\ \A c \in ManyCallers : call[c].pc = "wait"
    /\ Cardinality(ManyCallers) > Q + W
    /\ Cardinality({c \in ManyCallers : task[c].pc # "none"}) = W
    /\ runPc = "acquire"
    /\ Len(mailCh) = Q
    /\ ~done

\* The jobs stuck in a handler.
Hung == {c \in Callers : task[c].pc = "hung"}

\* C36: while fewer than W jobs are stuck in a handler, no other caller
\* stays inside Dispatch for ever; a stuck job keeps its slot and its caller
\* waiting; and once W jobs are stuck no goroutine is started any more, so
\* a call whose job has none stays where it is.
HungLeavesOthers ==
    /\ \A c \in DirectCallers :
          []<>(call[c].pc \in {"idle", "ret"} \/ c \in Hung \/ Cardinality(Hung) >= W)
    /\ [](workers >= Cardinality(Hung))
    /\ [][\A c \in DirectCallers :
            /\ c \in Hung => c \in Hung' /\ call[c].pc' = "wait"
            /\ (Cardinality(Hung) = W /\ call[c].pc = "wait"
                   /\ task[c].pc = "none" /\ jobErr[c] = <<>>)
                  => (call[c].pc' = "wait" /\ task[c].pc' = "none")]_vars

\* One job is stuck in its handler, fewer than there are slots, while
\* another caller has its result and a third job is in its handler.
HungLeavesOthersWitness ==
    \E c, d, e \in DirectCallers :
        /\ Hung = {c}
        /\ Cardinality(Hung) < W
        /\ d # c /\ call[d].pc = "ret"
        /\ e \notin {c, d} /\ task[e].pc = "handle"

\* No AddHandlers or RemoveHandlers call is in progress.
NoCallOpen == \A g \in Registrars : reg[g].pc \in {"idle", "ret"}

\* C34: the list a job runs is copied in one step after the job's goroutine
\* started, at an instant when no AddHandlers or RemoveHandlers call is
\* under way, so it is the list as whole calls left it; no later step
\* changes the copy, and the handlers the job invokes are the matching
\* handlers of the copy, in its order, whatever d.handlers has become.
SnapshotAtOneInstant ==
    /\ [][\A c \in MutCallers :
            (task[c].pc = "start" /\ task[c]' # task[c]) =>
                /\ NoCallOpen
                /\ task[c].pc' = "chain"
                /\ task[c].hs' = handlers]_vars
    /\ [][\A c \in MutCallers :
            (task[c].pc \in {"chain", "handle"} /\ task[c].pc' # "none") =>
                task[c].hs' = task[c].hs]_vars
    /\ [](\A c \in MutCallers :
            LET t == task[c]
                matching(hs) == SelectSeq(hs, LAMBDA h : Match(h, call[c].mail))
            IN  /\ t.pc = "chain" => invoked[c] = matching(SubSeq(t.hs, 1, t.i - 1))
                /\ t.pc = "handle" => invoked[c] = matching(SubSeq(t.hs, 1, t.i)))

\* A job is inside a handler that has been removed since the job's copy was
\* made, while an AddHandlers call is between two of its appends.
SnapshotAtOneInstantWitness ==
    \E c \in MutCallers : \E g \in MutRegistrars :
        /\ task[c].pc = "handle"
        /\ task[c].hs[task[c].i] \notin handlersMap
        /\ task[c].hs # handlers
        /\ reg[g].pc = "append"
        /\ reg[g].k = 2
        /\ handlers # reg[g].before

\* C40: whenever d.mu is free the map's keys are the handlers in the list and
\* no handler is in the list twice; a call that ends leaves the list that
\* the whole call makes of the list it found; every call returns nil, and
\* none panics.
RegistryConsistent ==
    /\ [](dmu.holder = "free" =>
            /\ handlersMap = Range(handlers)
            /\ \A i, j \in 1..Len(handlers) : handlers[i] = handlers[j] => i = j)
    /\ [](\A g \in Registrars :
            /\ reg[g].pc # "panic"
            /\ reg[g].pc = "ret" => reg[g].ret = Nil)
    /\ [][\A g \in Registrars :
            (reg[g].pc = "loop" /\ reg[g].pc' = "ret") =>
                LET b == reg[g].before
                IN  handlers = IF reg[g].op = "add"
                               THEN AppendNew(b, Range(b), reg[g].args)[1]
                               ELSE RemoveAll(b, Range(b), reg[g].args)[1]]_vars

\* One goroutine has returned from its call while the other, inside
\* RemoveHandlers, has taken one handler out and found the next.
RegistryConsistentWitness ==
    \E g, h \in Registrars :
        /\ reg[g].pc = "ret"
        /\ reg[h].pc = "cut"
        /\ reg[h].k = 2
        /\ Len(handlers) = 2
        /\ dmu.holder = h
====
